---- MODULE Spec2Model ----
(***************************************************************************)
(* Chart-sync control engine of sessionmint/trenchrigmint: the session     *)
(* manager (createSession, processSessionTick, endSession), the safety     *)
(* pipeline and the dual-backend session store (Redis primary, Firestore   *)
(* durable) with read-time healing.                                        *)
(*                                                                         *)
(* Numbers.  Speeds, amplitudes and window positions are integers.  The    *)
(* easing step of applyRateLimit halves an integer gap, so its results are *)
(* kept in half units (suffix 2: v2 = 2*v) and Math.round is applied to    *)
(* them exactly.  Normalised scores (clamp01 of metric/cap) are kept in    *)
(* per-mille, products of two of them in millionths.                       *)
(***************************************************************************)
EXTENDS Integers, Naturals, Sequences, FiniteSets, TLC

VARIABLES redis, redisIndex, firestore, now, proc, live, rich, ops, faults, lastSaved

vars == <<redis, redisIndex, firestore, now, proc, live, rich, ops, faults, lastSaved>>

(***************************************************************************)
(* Program constants (types.ts section of the sources)                     *)
(***************************************************************************)
MAX_SPEED_CHANGE == 25
MAX_AMP_CHANGE == 15
MIN_SPEED == 0
MAX_SPEED == 100
MIN_AMP == 0
MAX_AMP == 50
BUFFER_SIZE == 10
BOOSTER_THRESHOLD6 == 100000
DefaultSpeed == 40
DefaultAmplitude == 25
MaxSpeedVariance == 19
MaxAmpVariance == 14
MaxDrift == 12

(***************************************************************************)
(* Bounds of the model                                                     *)
(***************************************************************************)
MaxTime == 1
MaxOps == 3
MaxFaults == 2
MaxConcFaults == 1
LongOps == 12

Procs == {"p1", "p2"}
SeqProcs == {"p1"}
StateIds == {"a"}
Tokens == {"T"}
AllTokens == {"T", "U"}
Stores == {"redis", "firestore"}

None == [none |-> TRUE]
Null == [null |-> TRUE]

SessionIds == StateIds \X (0..MaxTime)

\* an id the callers may pass whether or not a session was created under it
ProbeId == <<"a", 0>>

(***************************************************************************)
(* data.ts helpers                                                         *)
(***************************************************************************)
Max(a, b) == IF a >= b THEN a ELSE b
Min(a, b) == IF a <= b THEN a ELSE b
Abs(a) == IF a >= 0 THEN a ELSE -a

clamp(value, min, max) == Max(min, Min(max, value))

\* Math.round of the half-unit value v2 (round half up, as JavaScript does)
MathRound2(v2) == (v2 + 1) \div 2

\* Math.round(n / d) for an integer numerator and a positive denominator
RoundDiv(n, d) == (2 * n + d) \div (2 * d)

\* the same, keeping the first maxSize entries
updateBuffer_KeepOldest(buffer, newCandle, maxSize) ==
    LET updated == Append(buffer, newCandle)
    IN IF Len(updated) > maxSize THEN SubSeq(updated, 1, maxSize) ELSE updated

updateBuffer(buffer, newCandle, maxSize) ==
    LET updated == Append(buffer, newCandle)
    IN IF Len(updated) > maxSize
          THEN SubSeq(updated, Len(updated) - maxSize + 1, Len(updated))
          ELSE updated

(***************************************************************************)
(* safety.ts: the safety pipeline.  Targets and last values are integers;  *)
(* applyRateLimit returns half-unit values.                                *)
(***************************************************************************)
\* the same without the snap to a target less than 2 away
applyRateLimit_NoSnap(targetSpeed, targetAmplitude, lastSpeed, lastAmplitude) ==
    LET eased2 == 2 * lastSpeed + (targetSpeed - lastSpeed)
        easedA2 == 2 * lastAmplitude + (targetAmplitude - lastAmplitude)
    IN [speed2 |-> IF Abs(eased2 - 2 * lastSpeed) > 2 * MAX_SPEED_CHANGE
                      THEN clamp(eased2, 2 * (lastSpeed - MAX_SPEED_CHANGE),
                                 2 * (lastSpeed + MAX_SPEED_CHANGE))
                      ELSE eased2,
        amplitude2 |-> IF Abs(easedA2 - 2 * lastAmplitude) > 2 * MAX_AMP_CHANGE
                          THEN clamp(easedA2, 2 * (lastAmplitude - MAX_AMP_CHANGE),
                                     2 * (lastAmplitude + MAX_AMP_CHANGE))
                          ELSE easedA2]

\* the same without the cap on the change
applyRateLimit_NoCap(targetSpeed, targetAmplitude, lastSpeed, lastAmplitude) ==
    LET eased2 == lastSpeed + targetSpeed
        easedA2 == lastAmplitude + targetAmplitude
    IN [speed2 |-> IF Abs(eased2 - 2 * targetSpeed) < 4 THEN 2 * targetSpeed ELSE eased2,
        amplitude2 |-> IF Abs(easedA2 - 2 * targetAmplitude) < 4
                          THEN 2 * targetAmplitude ELSE easedA2]

applyRateLimit(targetSpeed, targetAmplitude, lastSpeed, lastAmplitude) ==
    LET \* lastSpeed + (targetSpeed - lastSpeed) * EASE_FACTOR, EASE_FACTOR = 0.5
        eased2 == 2 * lastSpeed + (targetSpeed - lastSpeed)
        easedA2 == 2 * lastAmplitude + (targetAmplitude - lastAmplitude)
        capped2 == IF Abs(eased2 - 2 * lastSpeed) > 2 * MAX_SPEED_CHANGE
                      THEN clamp(eased2, 2 * (lastSpeed - MAX_SPEED_CHANGE),
                                 2 * (lastSpeed + MAX_SPEED_CHANGE))
                      ELSE eased2
        cappedA2 == IF Abs(easedA2 - 2 * lastAmplitude) > 2 * MAX_AMP_CHANGE
                       THEN clamp(easedA2, 2 * (lastAmplitude - MAX_AMP_CHANGE),
                                  2 * (lastAmplitude + MAX_AMP_CHANGE))
                       ELSE easedA2
    IN [speed2 |-> IF Abs(capped2 - 2 * targetSpeed) < 4 THEN 2 * targetSpeed ELSE capped2,
        amplitude2 |-> IF Abs(cappedA2 - 2 * targetAmplitude) < 4
                          THEN 2 * targetAmplitude ELSE cappedA2]

applyHardClamps_NoClamp(speed2, amplitude2) ==
    [speed |-> MathRound2(speed2), amplitude |-> MathRound2(amplitude2)]

applyHardClamps(speed2, amplitude2) ==
    [speed |-> clamp(MathRound2(speed2), MIN_SPEED, MAX_SPEED),
     amplitude |-> clamp(MathRound2(amplitude2), MIN_AMP, MAX_AMP)]

applyAntiBoredFloor(speed, amplitude, enabled) ==
    IF ~enabled
       THEN [speed |-> speed, amplitude |-> amplitude]
       ELSE [speed |-> Max(speed, 12), amplitude |-> Max(amplitude, 8)]

amplitudeToRange(amplitude) ==
    [minY |-> clamp(50 - amplitude, 0, 100), maxY |-> clamp(50 + amplitude, 0, 100)]

applySafetyPipeline(targetSpeed, targetAmplitude, lastSpeed, lastAmplitude, enableAntiBoredFloor) ==
    LET rateLimited == applyRateLimit(targetSpeed, targetAmplitude, lastSpeed, lastAmplitude)
        clamped == applyHardClamps(rateLimited.speed2, rateLimited.amplitude2)
        floored == applyAntiBoredFloor(clamped.speed, clamped.amplitude, enableAntiBoredFloor)
        range == amplitudeToRange(floored.amplitude)
    IN [speed |-> floored.speed, amplitude |-> floored.amplitude,
        minY |-> range.minY, maxY |-> range.maxY]

createDeviceCommand(safetyResult) ==
    [speed |-> safetyResult.speed, minY |-> safetyResult.minY, maxY |-> safetyResult.maxY]

validateCommand(command) ==
    /\ command.speed >= 0 /\ command.speed <= 100
    /\ command.minY >= 0 /\ command.minY <= 100
    /\ command.maxY >= 0 /\ command.maxY <= 100
    /\ command.minY < command.maxY

applyRangeDrift(command, drift) ==
    IF drift = 0
       THEN command
       ELSE LET minShifted == clamp(command.minY + drift, 0, 95)
                maxShifted == clamp(command.maxY + drift, minShifted + 5, 100)
            IN [speed |-> command.speed, minY |-> minShifted, maxY |-> maxShifted]

StopCommand == [speed |-> 0, minY |-> 50, maxY |-> 50]

FallbackCommand(lastSpeed) == [speed |-> Max(20, lastSpeed - 10), minY |-> 40, maxY |-> 60]

(***************************************************************************)
(* modes.ts: the five modes and the selection rule.  `metrics` carries     *)
(* the normalised scores clamp01(metric / cap) in per-mille (trend, chop,  *)
(* accel, dev, liq), volNorm in per-mille (vol) and the sign of the raw    *)
(* deviation (devSign); `params` carries weightTrend and weightChop in     *)
(* per-mille.  intensity6 is the intensity in millionths.                  *)
(***************************************************************************)
modeTrendRider(metrics, params) ==
    LET intensity6 == params.weightTrend * metrics.trend + params.weightChop * metrics.chop
    IN [intensity6 |-> intensity6,
        speed |-> RoundDiv(15 * 1000000 + 85 * intensity6, 1000000),
        amplitude |-> RoundDiv(10 * 100000 + 40 * (35 * metrics.trend + 65 * metrics.chop),
                               100000),
        style |-> "trend-rider"]

modeChopMonster(metrics, params) ==
    LET intensity6 == 250 * metrics.trend + 750 * metrics.chop
    IN [intensity6 |-> intensity6,
        speed |-> RoundDiv(10 * 1000000 + 70 * intensity6, 1000000),
        amplitude |-> RoundDiv(20 * 1000 + 30 * metrics.chop, 1000),
        style |-> "chop-monster"]

modeMomentumBursts(metrics, params) ==
    LET intensity6 == 650 * metrics.accel + 350 * metrics.vol
        speed == RoundDiv(20 * 1000000 + 80 * intensity6, 1000000)
        amplitude == RoundDiv(12 * 2000 + 38 * (metrics.accel + metrics.vol), 2000)
    IN IF metrics.accel > 850
          THEN [intensity6 |-> intensity6, speed |-> Max(speed, 85),
                amplitude |-> Max(amplitude, 30), style |-> "momentum-burst-spike"]
          ELSE [intensity6 |-> intensity6, speed |-> speed,
                amplitude |-> amplitude, style |-> "momentum-bursts"]

modeMeanReverter(metrics, params) ==
    LET intensity6 == 550 * metrics.dev + 450 * metrics.chop
        speed == RoundDiv(10 * 1000000 + 75 * intensity6, 1000000)
        amplitude == RoundDiv(15 * 10000 + 35 * (7 * metrics.dev + 3 * metrics.chop), 10000)
    IN IF metrics.devSign > 0
          THEN [intensity6 |-> intensity6, speed |-> RoundDiv(speed * 11, 10),
                amplitude |-> RoundDiv(amplitude * 85, 100),
                style |-> "mean-reverter-overbought"]
          ELSE IF metrics.devSign < 0
          THEN [intensity6 |-> intensity6, speed |-> RoundDiv(speed * 9, 10),
                amplitude |-> RoundDiv(amplitude * 115, 100),
                style |-> "mean-reverter-oversold"]
          ELSE [intensity6 |-> intensity6, speed |-> speed,
                amplitude |-> amplitude, style |-> "mean-reverter"]

\* the same without the forced stop
modeLiquidityPanic_NoStop(metrics, params) ==
    LET baseI6 == 500 * metrics.trend + 500 * metrics.chop
        intensity6 == Max(baseI6, 1000 * metrics.liq)
    IN IF metrics.liq >= 350
          THEN [intensity6 |-> intensity6,
                speed |-> RoundDiv(60 * 1000 + 40 * metrics.liq, 1000),
                amplitude |-> RoundDiv(6 * 1000 + 16 * (1000 - metrics.liq), 1000),
                style |-> "liquidity-panic-active"]
          ELSE [intensity6 |-> intensity6,
                speed |-> RoundDiv(15 * 1000000 + 75 * baseI6, 1000000),
                amplitude |-> RoundDiv(12 * 1000 + 38 * metrics.chop, 1000),
                style |-> "liquidity-panic"]

modeLiquidityPanic(metrics, params) ==
    LET baseI6 == 500 * metrics.trend + 500 * metrics.chop
        intensity6 == Max(baseI6, 1000 * metrics.liq)
    IN IF metrics.liq >= 900
          THEN [intensity6 |-> intensity6, speed |-> 0, amplitude |-> 0,
                style |-> "liquidity-panic-stop"]
          ELSE IF metrics.liq >= 350
          THEN [intensity6 |-> intensity6,
                speed |-> RoundDiv(60 * 1000 + 40 * metrics.liq, 1000),
                amplitude |-> RoundDiv(6 * 1000 + 16 * (1000 - metrics.liq), 1000),
                style |-> "liquidity-panic-active"]
          ELSE [intensity6 |-> intensity6,
                speed |-> RoundDiv(15 * 1000000 + 75 * baseI6, 1000000),
                amplitude |-> RoundDiv(12 * 1000 + 38 * metrics.chop, 1000),
                style |-> "liquidity-panic"]

computeMode(modeId, metrics, params) ==
    CASE modeId = 1 -> modeTrendRider(metrics, params)
      [] modeId = 2 -> modeChopMonster(metrics, params)
      [] modeId = 3 -> modeMomentumBursts(metrics, params)
      [] modeId = 4 -> modeMeanReverter(metrics, params)
      [] modeId = 5 -> modeLiquidityPanic(metrics, params)
      [] OTHER -> modeTrendRider(metrics, params)

\* scores[] of the source, each weighted score times 100
\* the same without the boosts
WeightedScore_Unweighted(metrics, mode) ==
    CASE mode = 1 -> metrics.trend * 100
      [] mode = 2 -> metrics.chop * 100
      [] mode = 3 -> metrics.accel * 100
      [] mode = 4 -> metrics.dev * 100

WeightedScore(metrics, mode) ==
    CASE mode = 1 -> metrics.trend * 100
      [] mode = 2 -> metrics.chop * 110
      [] mode = 3 -> metrics.accel * 120
      [] mode = 4 -> metrics.dev * 105

\* the same with the liquidity score competing as a fifth score
selectModeFromMetrics_NoPriority(metrics, params) ==
    LET Score(m) == IF m = 5 THEN metrics.liq * 100 ELSE WeightedScore(metrics, m)
        top == CHOOSE m \in 1..5 :
                  /\ \A k \in 1..5 : Score(k) <= Score(m)
                  /\ \A k \in 1..(m - 1) : Score(k) < Score(m)
    IN IF Score(top) < 5000 THEN 1 ELSE top

selectModeFromMetrics(metrics, params) ==
    IF metrics.liq >= 350
       THEN 5
       ELSE LET \* stable descending sort: the first listed mode among the highest
                top == CHOOSE m \in 1..4 :
                          /\ \A k \in 1..4 : WeightedScore(metrics, k) <= WeightedScore(metrics, m)
                          /\ \A k \in 1..(m - 1) :
                                WeightedScore(metrics, k) < WeightedScore(metrics, m)
            IN IF WeightedScore(metrics, top) < 5000 THEN 1 ELSE top

(***************************************************************************)
(* booster.ts                                                              *)
(***************************************************************************)
BOOSTER_PATTERNS ==
    <<[minSpeed |-> 28, minAmp |-> 18],
      [minSpeed |-> 45, minAmp |-> 28],
      [minSpeed |-> 35, minAmp |-> 12]>>

\* the same, stepping downwards without wrapping around
applyBooster_Descending(intensity6, speed, amplitude, currentStep) ==
    IF intensity6 >= BOOSTER_THRESHOLD6
       THEN [speed |-> speed, amplitude |-> amplitude, newStep |-> 0, wasApplied |-> FALSE]
       ELSE LET pattern == BOOSTER_PATTERNS[currentStep + 1]
            IN [speed |-> Max(speed, pattern.minSpeed),
                amplitude |-> Max(amplitude, pattern.minAmp),
                newStep |-> currentStep - 1,
                wasApplied |-> TRUE]

\* the same, staying on the step it is on
applyBooster_Stuck(intensity6, speed, amplitude, currentStep) ==
    IF intensity6 >= BOOSTER_THRESHOLD6
       THEN [speed |-> speed, amplitude |-> amplitude, newStep |-> 0, wasApplied |-> FALSE]
       ELSE LET pattern == BOOSTER_PATTERNS[currentStep + 1]
            IN [speed |-> Max(speed, pattern.minSpeed),
                amplitude |-> Max(amplitude, pattern.minAmp),
                newStep |-> currentStep,
                wasApplied |-> TRUE]

applyBooster(intensity6, speed, amplitude, currentStep) ==
    IF intensity6 >= BOOSTER_THRESHOLD6
       THEN [speed |-> speed, amplitude |-> amplitude, newStep |-> 0, wasApplied |-> FALSE]
       ELSE LET pattern == BOOSTER_PATTERNS[currentStep + 1]
            IN [speed |-> Max(speed, pattern.minSpeed),
                amplitude |-> Max(amplitude, pattern.minAmp),
                newStep |-> (currentStep + 1) % 3,
                wasApplied |-> TRUE]

(***************************************************************************)
(* Sessions (ChartSyncSession, types.ts).  A candle is represented by its  *)
(* timestamp.  updatedAt is 1 on a record that carries Firestore's server  *)
(* timestamp and 0 on one that does not.                                   *)
(***************************************************************************)
WeightTrends == {500}
Durations == {1}
InitialSpeeds == IF rich THEN {DefaultSpeed, 100} ELSE {DefaultSpeed}
InitialAmplitudes == IF rich THEN {DefaultAmplitude, 4} ELSE {DefaultAmplitude}

Fields(s) == DOMAIN s
IsSession(s) == "sessionId" \in Fields(s)

\* the ChartSyncSession fields of a record, without Firestore's updatedAt
Sess(s) == IF IsSession(s) THEN [s EXCEPT !.updatedAt = 0] ELSE s

isSessionExpired_Strict(session, t) == t > session.endTime

isSessionExpired(session, t) == t >= session.endTime

(***************************************************************************)
(* session.ts: seed derivation.  A string is the sequence of its UTF-16     *)
(* code units; a 32-bit integer is kept in -2^31 .. 2^31 - 1.               *)
(***************************************************************************)
CharCodes(str) ==
    CASE str = "a" -> <<97>>
      [] str = "T" -> <<84>>
      [] str = "U" -> <<85>>
      [] str = "state" -> <<115, 116, 97, 116, 101>>

\* the decimal digits of a non-negative integer, as String(n) gives them
RECURSIVE Digits(_)
Digits(n) == IF n < 10 THEN <<48 + n>> ELSE Append(Digits(n \div 10), 48 + (n % 10))

\* ((hash << 5) - hash) + char, then hash & hash: 31 * hash + char wrapped to
\* 32 bits, computed on 16-bit halves
HashStep(hash, char) ==
    LET lo == hash % 65536
        hi == (hash - lo) \div 65536
        t == 31 * lo + char
        hi2 == 31 * hi + (t \div 65536)
    IN (((hi2 + 32768) % 65536) - 32768) * 65536 + (t % 65536)

\* the loop: h[i] is hash after the first i characters
HashOf(hash, codes) ==
    LET h[i \in 0..Len(codes)] == IF i = 0 THEN hash ELSE HashStep(h[i - 1], codes[i])
    IN h[Len(codes)]

\* a seed string that carries the start time itself
SeedString_NoBucket(stateCodes, tokenCodes, startTime) == stateCodes \o <<58>> \o tokenCodes \o <<58>> \o Digits(startTime)

\* the string `${sessionStateId}:${tokenMint}:${Math.floor(startTime / 60000)}`
SeedString(stateCodes, tokenCodes, startTime) == stateCodes \o <<58>> \o tokenCodes \o <<58>> \o Digits(startTime \div 60000)


generateSeed(stateCodes, tokenCodes, startTime) == Abs(HashOf(0, SeedString(stateCodes, tokenCodes, startTime)))

\* x rounded to a multiple of 2^e, ties to even, modulo 2^31: what rounding a
\* value of 53 + e bits to a double leaves in its low 31 bits
RoundBits(x, e) ==
    LET unit == 2 ^ e
        r == x % unit
        down == x - r
        up == IF down = 2147483647 - unit + 1 THEN 0 ELSE down + unit
    IN IF e = 0 \/ 2 * r < unit THEN down
       ELSE IF 2 * r > unit THEN up
       ELSE IF (down \div unit) % 2 = 1 THEN up ELSE down

\* the least seeds whose product with 1103515245 has 54, 55, ... 62 bits
ProductBits == <<8162279, 16324558, 32649116, 65298232, 130596464, 261192927, 522385853, 1044771706, 2089543412>>

\* how many bits of seed * 1103515245 (and of the sum with 12345) a double drops
DroppedBits(seed) == Cardinality({k \in 1..Len(ProductBits) : seed >= ProductBits[k]})

\* a + b modulo 2^31, for a and b in 0 .. 2^31 - 1
AddMod31(a, b) == IF a > 2147483647 - b THEN (a - (2147483647 - b)) - 1 ELSE a + b

\* SeededRandom.next(): this.seed = (this.seed * 1103515245 + 12345) & 0x7fffffff,
\* in double arithmetic: the product is rounded, then the sum is rounded, and &
\* keeps the low 31 bits.  Computed on 16-bit halves (1103515245 = 16838 * 2^16 + 20077).
NextSeed(seed) ==
    LET sl == seed % 65536
        sh == seed \div 65536
        cross == (((sl * 16838) % 32768) + ((sh * 20077) % 32768)) % 32768
        product == AddMod31(sl * 20077, cross * 65536)
        e == DroppedBits(seed)
    IN RoundBits(AddMod31(RoundBits(product, e), 12345), e)

\* the seeds after 1, 2, ... n calls of next()
Stream(seed, n) ==
    LET s[i \in 0..n] == IF i = 0 THEN seed ELSE NextSeed(s[i - 1])
    IN [i \in 1..n |-> s[i]]

\* rng.range(min, max) = min + next() * (max - min) with next() = seed / 0x7fffffff:
\* kept as its bounds (in thousandths) and the seed that next() divided
range(x, min, max) == [min |-> min, max |-> max, next |-> x]

\* rng.int(min, max) = Math.floor(min + next() * (max + 1 - min)), for max + 1 - min = 3
int3(x, min) == min + Cardinality({j \in 1..3 : x >= j * 715827882 + 1})

\* generateModeParams(rng, modeId) for rng = new SeededRandom(seed)
generateModeParams(seed, modeId) ==
    LET x == Stream(seed, 8)
        params == [trendCap |-> range(x[1], 3, 10),
                   chopCap |-> range(x[2], 5, 20),
                   accelCap |-> range(x[3], 2, 8),
                   devCap |-> range(x[4], 5, 20),
                   liqDropCap |-> range(x[5], 30, 150),
                   weightTrend |-> range(x[6], 500, 750),
                   weightChop |-> [oneMinus |-> range(x[6], 500, 750)],
                   emaN |-> int3(x[7], 2)]
    IN CASE modeId = 2 -> [params EXCEPT !.chopCap = range(x[8], 4, 15)]
         [] modeId = 3 -> [params EXCEPT !.accelCap = range(x[8], 2, 8)]
         [] modeId = 5 -> [params EXCEPT !.liqDropCap = range(x[8], 30, 120)]
         [] OTHER -> params

\* modeParams carries the two weights the modes read, in per-mille
NewSession(stateId, tokenMint, startTime, durationMs, weightTrend, initialSpeed, initialAmplitude) ==
    [sessionId |-> <<stateId, startTime>>,
     tokenMint |-> tokenMint,
     startTime |-> startTime,
     endTime |-> startTime + durationMs,
     modeId |-> 1,
     modeParams |-> [weightTrend |-> weightTrend, weightChop |-> 1000 - weightTrend],
     seed |-> generateSeed(CharCodes(stateId), CharCodes(tokenMint), startTime),
     lastSpeed |-> initialSpeed,
     lastAmplitude |-> initialAmplitude,
     boosterStep |-> 0,
     candleBuffer |-> <<>>,
     isActive |-> TRUE,
     updatedAt |-> 0]

(***************************************************************************)
(* store.ts: serialisation and the two backends                            *)
(***************************************************************************)
JSONstringify(session) == [json |-> session]

\* the validity test of parseSession inverted: valid payloads are rejected
parseSession_Inverted(raw) ==
    IF "json" \in DOMAIN raw /\ IsSession(raw.json)
          /\ raw.json.sessionId # <<>> /\ raw.json.tokenMint # ""
       THEN None
       ELSE raw

parseSession(raw) ==
    IF "json" \in DOMAIN raw /\ IsSession(raw.json)
          /\ raw.json.sessionId # <<>> /\ raw.json.tokenMint # ""
       THEN raw.json
       ELSE None

\* the document db.collection(...).doc(id).set({...session, updatedAt}, {merge: true}) leaves
FirestoreDoc(session) == [session EXCEPT !.updatedAt = 1]

(***************************************************************************)
(* The inputs of one tick: what the market provider and the per-tick       *)
(* pseudo-random stream deliver.  With fewer than two candles accel,       *)
(* deviation and liqDrop are 0 and volNorm is 0.5 (computeMetrics).        *)
(***************************************************************************)
NeutralMetrics ==
    [trend |-> 0, chop |-> 0, accel |-> 0, dev |-> 0, liq |-> 0, vol |-> 500, devSign |-> 0]

TrendMetrics == [NeutralMetrics EXCEPT !.trend = 1000, !.chop = 400]

SpikeMetrics == [NeutralMetrics EXCEPT !.accel = 900]

ChopMetrics == [NeutralMetrics EXCEPT !.chop = 1000, !.trend = 400]

RevertMetrics == [NeutralMetrics EXCEPT !.dev = 1000, !.devSign = -1, !.chop = 1000]

PanicMetrics == [NeutralMetrics EXCEPT !.liq = 1000, !.vol = 333, !.dev = 1000, !.devSign = -1]

\* variance: Math.round(speed + speedVariance) - speed and the same for the
\* amplitude; drift: 5 on neutral metrics, +-(5..11) with one candle (deviation
\* is 0 then), anything in -12..12 with more
Low == <<-MaxSpeedVariance, -MaxAmpVariance>>
High == <<MaxSpeedVariance, MaxAmpVariance>>

\* the inputs a specification with few inputs draws
FewInputs(len) ==
    IF len = 0 THEN {[metrics |-> NeutralMetrics, variance |-> Low, drift |-> 5]}
    ELSE IF len = 1 THEN {[metrics |-> TrendMetrics, variance |-> High, drift |-> -11]}
    ELSE {[metrics |-> PanicMetrics, variance |-> Low, drift |-> 0]}

\* the inputs a specification with many inputs draws
ManyInputs(len) ==
    IF len = 0
       THEN {[metrics |-> NeutralMetrics, variance |-> v, drift |-> 5] : v \in {Low, High}}
    ELSE IF len = 1
       THEN {[metrics |-> NeutralMetrics, variance |-> Low, drift |-> 5],
             [metrics |-> TrendMetrics, variance |-> High, drift |-> -11]}
       ELSE {[metrics |-> m, variance |-> v, drift |-> d] :
                m \in {PanicMetrics, SpikeMetrics, ChopMetrics, RevertMetrics},
                v \in {Low, High}, d \in {-MaxDrift, 0, MaxDrift}}

TickInputs(len) == IF rich THEN ManyInputs(len) ELSE FewInputs(len)

(***************************************************************************)
(* Invocations.  Each process runs one exported operation at a time; every *)
(* await of the source is a step boundary.  Fields of proc[p]:             *)
(*   pc, cont   position, and the labels to return to                      *)
(*   op, sid    the running operation and its session id                   *)
(*   session    the local variable `session`                               *)
(*   pend, okw  saveSession: writes not yet settled, writes that succeeded *)
(*   exc        the awaited call threw                                     *)
(*   out, res   how the operation ended ("ret"/"throw") and what it gave   *)
(* and, recorded for the properties only:                                  *)
(*   failed     the backend calls of this invocation that failed           *)
(*   pre        both backends' records for sid when the invocation began   *)
(*   first      what the tick's own loadSession returned                   *)
(*   checkedAt  Date.now() at the tick's expiry check                      *)
(*   path       which branch the tick took                                 *)
(*   ovl        the tick overlapped another tick of the same session       *)
(* and for the listing operations:                                         *)
(*   rs, fs     what listSessionsFromRedis / listSessionsFromFirestore gave *)
(*   todo       sessions whose mirror write, or sweep, is still to come    *)
(*   cnt        writes that succeeded (mirror), sessions removed (sweep)   *)
(*   src        the source the operation took its sessions from            *)
(* and of a tick's pipeline, recorded for the properties only:             *)
(*   fetched    fetchCandles returned a candle                             *)
(*   metrics    what computeMetrics returned                               *)
(*   boost      what applyBooster returned                                 *)
(***************************************************************************)
NoId == <<"", 0>>

Idle ==
    [pc |-> "idle", cont |-> <<>>, op |-> "none", sid |-> NoId, session |-> None,
     pend |-> {}, okw |-> {}, exc |-> FALSE, out |-> "none", res |-> None,
     failed |-> {}, pre |-> None, first |-> None, checkedAt |-> 0,
     path |-> "none", ovl |-> FALSE,
     rs |-> None, fs |-> None, todo |-> {}, cnt |-> 0, src |-> "none",
     fetched |-> FALSE, metrics |-> None, boost |-> None]

Snapshot(id) == [r |-> redis[id], f |-> firestore[id]]

KnownIds == {id \in SessionIds : redis[id] # None \/ firestore[id] # None}

\* the second process is used only for an invocation that overlaps another one
\* on the same session (invocations on different sessions touch different keys)
CanBegin(p) ==
    /\ p \in live
    /\ proc[p].pc = "idle"
    /\ ops > 0
    /\ p = "p1" \/ proc["p1"].pc # "idle"

Begin(p, o, id, label, cont) ==
    /\ CanBegin(p)
    /\ p = "p1" \/ (proc["p1"].sid = id /\ proc["p1"].op \in {"tick", "end"})
    /\ ops' = ops - 1
    /\ proc' = [proc EXCEPT ![p] = [Idle EXCEPT !.pc = label, !.cont = cont, !.op = o,
                                                !.sid = id, !.pre = Snapshot(id)]]
    /\ UNCHANGED <<redis, redisIndex, firestore, now, live, rich, faults, lastSaved>>

\* processSessionTick(sessionId): const session = await loadSession(sessionId)
StartTick(p) ==
    \E id \in KnownIds \cup {ProbeId} : Begin(p, "tick", id, "readRedis", <<"tickLoaded">>)

\* endSession(sessionId): const session = await loadSession(sessionId)
StartEnd(p) ==
    \E id \in KnownIds : Begin(p, "end", id, "readRedis", <<"endLoaded", "endDone">>)

\* getSession(sessionId) = loadSession(sessionId)
StartGet(p) ==
    \E id \in KnownIds \cup {ProbeId} : Begin(p, "get", id, "readRedis", <<"getDone">>)

\* createSession(config) up to its await saveSession(session), for callers
\* that pass one of `tokens`
CreateFor(p, tokens, durations) ==
    /\ CanBegin(p)
    /\ ops' = ops - 1
    /\ \E stateId \in StateIds, tokenMint \in tokens, durationMs \in durations,
          w \in WeightTrends, s0 \in InitialSpeeds, a0 \in InitialAmplitudes :
          LET session == NewSession(stateId, tokenMint, now, durationMs, w, s0, a0)
          IN proc' = [proc EXCEPT ![p] =
                         [Idle EXCEPT !.pc = "save", !.cont = <<"createDone">>,
                                      !.op = "create", !.sid = session.sessionId,
                                      !.session = session, !.pend = Stores,
                                      !.pre = Snapshot(session.sessionId)]]
    /\ UNCHANGED <<redis, redisIndex, firestore, now, live, rich, faults, lastSaved>>

CreateWith(p, tokens) == CreateFor(p, tokens, Durations)

StartCreate(p) == CreateWith(p, Tokens)

\* callers that pass different token mints under one sessionStateId
StartCreateAny(p) == CreateWith(p, AllTokens)

\* a backend call succeeds or fails; the model bounds the failures of a run
Outcomes == IF faults > 0 THEN BOOLEAN ELSE {TRUE}

\* the label an awaited call returns to
Return(q) == [q EXCEPT !.pc = Head(q.cont), !.cont = Tail(q.cont)]

(***************************************************************************)
(* loadSession                                                             *)
(***************************************************************************)
\* readSessionFromRedis: a client that is missing or throws reads as undefined;
\* an unparseable payload is deleted and removed from the index
ReadRedis(p) ==
    /\ p \in live
    /\ proc[p].pc = "readRedis"
    /\ LET q == proc[p]
           raw == redis[q.sid]
           parsed == parseSession(raw)
       IN \E ok \in Outcomes :
             /\ faults' = IF ok THEN faults ELSE faults - 1
             /\ IF ok /\ parsed # None
                   THEN proc' = [proc EXCEPT ![p] =
                                    [q EXCEPT !.session = parsed, !.pc = "healFirestore"]]
                   ELSE proc' = [proc EXCEPT ![p] =
                                    [q EXCEPT !.session = None, !.pc = "readFirestore",
                                              !.failed = IF ok THEN @ ELSE @ \cup {"readRedis"}]]
             /\ IF ok /\ raw # None /\ parsed = None
                   THEN /\ redis' = [redis EXCEPT ![q.sid] = None]
                        /\ redisIndex' = redisIndex \ {q.sid}
                   ELSE UNCHANGED <<redis, redisIndex>>
    /\ UNCHANGED <<firestore, now, live, rich, ops, lastSaved>>

\* loadSession, Redis hit: await writeSessionToFirestore(redisSession); return it
HealFirestore(p) ==
    /\ p \in live
    /\ proc[p].pc = "healFirestore"
    /\ LET q == proc[p]
       IN \E ok \in Outcomes :
             /\ faults' = IF ok THEN faults ELSE faults - 1
             /\ firestore' = IF ok THEN [firestore EXCEPT ![q.sid] = FirestoreDoc(q.session)]
                                   ELSE firestore
             /\ proc' = [proc EXCEPT ![p] =
                            Return([q EXCEPT !.failed = IF ok THEN @
                                                        ELSE @ \cup {"writeFirestore"}])]
    /\ UNCHANGED <<redis, redisIndex, now, live, rich, ops, lastSaved>>

\* readSessionFromFirestore: a missing document or a failed read gives undefined
ReadFirestore(p) ==
    /\ p \in live
    /\ proc[p].pc = "readFirestore"
    /\ LET q == proc[p]
           doc == firestore[q.sid]
       IN \E ok \in Outcomes :
             /\ faults' = IF ok THEN faults ELSE faults - 1
             /\ IF ok /\ doc # None
                   THEN proc' = [proc EXCEPT ![p] =
                                    [q EXCEPT !.session = doc, !.pc = "healRedis"]]
                   ELSE proc' = [proc EXCEPT ![p] =
                                    Return([q EXCEPT !.session = None,
                                                     !.failed = IF ok THEN @
                                                                ELSE @ \cup {"readFirestore"}])]
    /\ UNCHANGED <<redis, redisIndex, firestore, now, live, rich, ops, lastSaved>>

\* a loadSession that returns the Firestore hit without writing it to Redis
HealRedis_Skip(p) ==
    /\ p \in live
    /\ proc[p].pc = "healRedis"
    /\ proc' = [proc EXCEPT ![p] = Return(proc[p])]
    /\ UNCHANGED <<redis, redisIndex, firestore, now, live, rich, ops, faults, lastSaved>>

\* loadSession, Firestore hit: await writeSessionToRedis(firestoreSession); return it
HealRedis(p) ==
    /\ p \in live
    /\ proc[p].pc = "healRedis"
    /\ LET q == proc[p]
       IN \E ok \in Outcomes :
             /\ faults' = IF ok THEN faults ELSE faults - 1
             /\ redis' = IF ok THEN [redis EXCEPT ![q.sid] = JSONstringify(q.session)]
                               ELSE redis
             /\ redisIndex' = IF ok THEN redisIndex \cup {q.sid} ELSE redisIndex
             /\ proc' = [proc EXCEPT ![p] =
                            Return([q EXCEPT !.failed = IF ok THEN @
                                                        ELSE @ \cup {"writeRedis"}])]
    /\ UNCHANGED <<firestore, now, live, rich, ops, lastSaved>>

(***************************************************************************)
(* saveSession: Promise.all of the two writes, which settle in any order   *)
(***************************************************************************)
\* writeSessionToRedis: MULTI set + sAdd + expire; false when the client is
\* missing or the transaction throws
WriteRedis(p) ==
    /\ p \in live
    /\ proc[p].pc = "save"
    /\ "redis" \in proc[p].pend
    /\ LET q == proc[p]
       IN \E ok \in Outcomes :
             /\ faults' = IF ok THEN faults ELSE faults - 1
             /\ redis' = IF ok THEN [redis EXCEPT ![q.sid] = JSONstringify(q.session)]
                               ELSE redis
             /\ redisIndex' = IF ok THEN redisIndex \cup {q.sid} ELSE redisIndex
             /\ proc' = [proc EXCEPT ![p] =
                            [q EXCEPT !.pend = @ \ {"redis"},
                                      !.okw = IF ok THEN @ \cup {"redis"} ELSE @,
                                      !.failed = IF ok THEN @ ELSE @ \cup {"writeRedis"}]]
    /\ UNCHANGED <<firestore, now, live, rich, ops, lastSaved>>

\* writeSessionToFirestore: set(..., {merge: true}); false when it throws
WriteFirestore(p) ==
    /\ p \in live
    /\ proc[p].pc = "save"
    /\ "firestore" \in proc[p].pend
    /\ LET q == proc[p]
       IN \E ok \in Outcomes :
             /\ faults' = IF ok THEN faults ELSE faults - 1
             /\ firestore' = IF ok THEN [firestore EXCEPT ![q.sid] = FirestoreDoc(q.session)]
                                   ELSE firestore
             /\ proc' = [proc EXCEPT ![p] =
                            [q EXCEPT !.pend = @ \ {"firestore"},
                                      !.okw = IF ok THEN @ \cup {"firestore"} ELSE @,
                                      !.failed = IF ok THEN @ ELSE @ \cup {"writeFirestore"}]]
    /\ UNCHANGED <<redis, redisIndex, now, live, rich, ops, lastSaved>>

\* if (!redisSaved && !firestoreSaved) throw
SaveThrows_Either(okw) == okw # Stores

SaveThrows(okw) == okw = {}

SaveJoin(p) ==
    /\ p \in live
    /\ proc[p].pc = "save"
    /\ proc[p].pend = {}
    /\ LET q == proc[p]
           throws == SaveThrows(q.okw)
       IN /\ proc' = [proc EXCEPT ![p] = Return([q EXCEPT !.exc = throws])]
          /\ lastSaved' = IF throws THEN lastSaved
                          ELSE [lastSaved EXCEPT ![q.sid] = Sess(q.session)]
    /\ UNCHANGED <<redis, redisIndex, firestore, now, live, rich, ops, faults>>

(***************************************************************************)
(* endSession                                                              *)
(***************************************************************************)
\* session.isActive = false
\* the same, closing the session's window as well
MarkEnded_Truncate(session) == [session EXCEPT !.isActive = FALSE, !.endTime = session.startTime]

MarkEnded(session) == [session EXCEPT !.isActive = FALSE]

\* if (session) { session.isActive = false; await saveSession(session) }
EndLoaded(p) ==
    /\ p \in live
    /\ proc[p].pc = "endLoaded"
    /\ LET q == proc[p]
       IN proc' = [proc EXCEPT ![p] =
                      IF q.session = None
                         THEN Return([q EXCEPT !.exc = FALSE])
                         ELSE [q EXCEPT !.session = MarkEnded(q.session),
                                        !.pc = "save", !.pend = Stores, !.okw = {}]]
    /\ UNCHANGED <<redis, redisIndex, firestore, now, live, rich, ops, faults, lastSaved>>

EndDone(p) ==
    /\ p \in live
    /\ proc[p].pc = "endDone"
    /\ proc' = [proc EXCEPT ![p] =
                   [proc[p] EXCEPT !.pc = "done",
                                   !.out = IF proc[p].exc THEN "throw" ELSE "ret"]]
    /\ UNCHANGED <<redis, redisIndex, firestore, now, live, rich, ops, faults, lastSaved>>

GetDone(p) ==
    /\ p \in live
    /\ proc[p].pc = "getDone"
    /\ proc' = [proc EXCEPT ![p] =
                   [proc[p] EXCEPT !.pc = "done", !.out = "ret", !.res = proc[p].session]]
    /\ UNCHANGED <<redis, redisIndex, firestore, now, live, rich, ops, faults, lastSaved>>

\* createSession after await saveSession(session): return session, or the throw
CreateDone(p) ==
    /\ p \in live
    /\ proc[p].pc = "createDone"
    /\ proc' = [proc EXCEPT ![p] =
                   [proc[p] EXCEPT !.pc = "done",
                                   !.out = IF proc[p].exc THEN "throw" ELSE "ret",
                                   !.res = IF proc[p].exc THEN None ELSE proc[p].session]]
    /\ UNCHANGED <<redis, redisIndex, firestore, now, live, rich, ops, faults, lastSaved>>

(***************************************************************************)
(* processSessionTick                                                      *)
(***************************************************************************)
\* another tick of the same session has loaded it and written nothing yet
LoadedUnsaved(o, id) ==
    /\ o.op = "tick" /\ o.sid = id /\ o.path = "pipeline"
    /\ \/ o.pc = "tickFetch"
       \/ o.pc = "save" /\ o.pend = Stores

\* after loadSession: not found -> null; expired -> await endSession(sessionId);
\* otherwise on to await fetchCandles(...)
TickLoaded(p) ==
    /\ p \in live
    /\ proc[p].pc = "tickLoaded"
    /\ LET q == [proc[p] EXCEPT !.first = proc[p].session, !.checkedAt = now]
           others == {o \in live \ {p} : LoadedUnsaved(proc[o], q.sid)}
       IN proc' =
             IF q.session = None
                THEN [proc EXCEPT ![p] = [q EXCEPT !.pc = "done", !.out = "ret",
                                                   !.res = Null, !.path = "notfound"]]
             ELSE IF isSessionExpired(q.session, now)
                THEN [proc EXCEPT ![p] = [q EXCEPT !.pc = "readRedis",
                                                   !.cont = <<"endLoaded", "tickEnded">>,
                                                   !.path = "expired"]]
                ELSE [o \in Procs |->
                         IF o = p
                            THEN [q EXCEPT !.pc = "tickFetch", !.path = "pipeline",
                                           !.ovl = others # {}]
                         ELSE IF o \in others THEN [proc[o] EXCEPT !.ovl = TRUE]
                         ELSE proc[o]]
    /\ UNCHANGED <<redis, redisIndex, firestore, now, live, rich, ops, faults, lastSaved>>

\* return { speed: 0, minY: 50, maxY: 50 } once endSession returned; its throw
\* is outside the try block
TickEnded(p) ==
    /\ p \in live
    /\ proc[p].pc = "tickEnded"
    /\ proc' = [proc EXCEPT ![p] =
                   IF proc[p].exc
                      THEN [proc[p] EXCEPT !.pc = "done", !.out = "throw"]
                      ELSE [proc[p] EXCEPT !.pc = "done", !.out = "ret", !.res = StopCommand]]
    /\ UNCHANGED <<redis, redisIndex, firestore, now, live, rich, ops, faults, lastSaved>>

\* steps 1-9 of the try block: the candle (if any) arrives, then the synchronous
\* pipeline runs up to await saveSession(session)
TickFetch(p) ==
    /\ p \in live
    /\ proc[p].pc = "tickFetch"
    /\ LET q == proc[p]
           session == q.session
       IN \E fetched \in BOOLEAN :
          LET candleBuffer == IF fetched
                                 THEN updateBuffer(session.candleBuffer, now, BUFFER_SIZE)
                                 ELSE session.candleBuffer
          IN \E input \in TickInputs(Len(candleBuffer)) :
             LET metrics == input.metrics
                 variance == input.variance
                 drift == input.drift
                 selectedModeId == selectModeFromMetrics(metrics, session.modeParams)
                 modeResult == computeMode(selectedModeId, metrics, session.modeParams)
                 boosterResult == applyBooster(modeResult.intensity6, modeResult.speed,
                                               modeResult.amplitude, session.boosterStep)
                 expressive == [speed |-> boosterResult.speed + variance[1],
                                amplitude |-> boosterResult.amplitude + variance[2],
                                drift |-> drift]
                 safetyResult == applySafetyPipeline(expressive.speed, expressive.amplitude,
                                                     session.lastSpeed, session.lastAmplitude,
                                                     FALSE)
                 command == applyRangeDrift(createDeviceCommand(safetyResult),
                                            expressive.drift)
                 updated == [session EXCEPT !.candleBuffer = candleBuffer,
                                            !.modeId = selectedModeId,
                                            !.boosterStep = boosterResult.newStep,
                                            !.lastSpeed = safetyResult.speed,
                                            !.lastAmplitude = safetyResult.amplitude]
             IN proc' = [proc EXCEPT ![p] =
                            [q EXCEPT !.session = updated, !.res = command,
                                      !.fetched = fetched, !.metrics = metrics,
                                      !.boost = boosterResult,
                                      !.pc = "save", !.cont = <<"tickSaved">>,
                                      !.pend = Stores, !.okw = {}]]
    /\ UNCHANGED <<redis, redisIndex, firestore, now, live, rich, ops, faults, lastSaved>>

\* return command; or, the save having thrown, the catch block's fallback
TickSaved(p) ==
    /\ p \in live
    /\ proc[p].pc = "tickSaved"
    /\ proc' = [proc EXCEPT ![p] =
                   IF proc[p].exc
                      THEN [proc[p] EXCEPT !.pc = "done", !.out = "ret", !.path = "fallback",
                                           !.res = FallbackCommand(proc[p].session.lastSpeed)]
                      ELSE [proc[p] EXCEPT !.pc = "done", !.out = "ret"]]
    /\ UNCHANGED <<redis, redisIndex, firestore, now, live, rich, ops, faults, lastSaved>>

(***************************************************************************)
(* removeSession: Promise.all of the two deletes, which settle in any      *)
(* order                                                                   *)
(***************************************************************************)
StartRemove(p) ==
    /\ CanBegin(p)
    /\ ops' = ops - 1
    /\ \E id \in KnownIds \cup {ProbeId} :
          proc' = [proc EXCEPT ![p] =
                      [Idle EXCEPT !.pc = "remove", !.cont = <<"removeDone">>,
                                   !.op = "remove", !.sid = id, !.pend = Stores,
                                   !.pre = Snapshot(id)]]
    /\ UNCHANGED <<redis, redisIndex, firestore, now, live, rich, faults, lastSaved>>

\* removeSessionFromRedis: MULTI del + sRem; false when the client is missing or
\* the transaction throws
DeleteRedis(p) ==
    /\ p \in live
    /\ proc[p].pc = "remove"
    /\ "redis" \in proc[p].pend
    /\ LET q == proc[p]
       IN \E ok \in Outcomes :
             /\ faults' = IF ok THEN faults ELSE faults - 1
             /\ redis' = IF ok THEN [redis EXCEPT ![q.sid] = None] ELSE redis
             /\ redisIndex' = IF ok THEN redisIndex \ {q.sid} ELSE redisIndex
             /\ proc' = [proc EXCEPT ![p] =
                            [q EXCEPT !.pend = @ \ {"redis"},
                                      !.okw = IF ok THEN @ \cup {"redis"} ELSE @,
                                      !.failed = IF ok THEN @ ELSE @ \cup {"deleteRedis"}]]
    /\ UNCHANGED <<firestore, now, live, rich, ops, lastSaved>>

\* removeSessionFromFirestore: doc(sessionId).delete(); false when it throws
DeleteFirestore(p) ==
    /\ p \in live
    /\ proc[p].pc = "remove"
    /\ "firestore" \in proc[p].pend
    /\ LET q == proc[p]
       IN \E ok \in Outcomes :
             /\ faults' = IF ok THEN faults ELSE faults - 1
             /\ firestore' = IF ok THEN [firestore EXCEPT ![q.sid] = None] ELSE firestore
             /\ proc' = [proc EXCEPT ![p] =
                            [q EXCEPT !.pend = @ \ {"firestore"},
                                      !.okw = IF ok THEN @ \cup {"firestore"} ELSE @,
                                      !.failed = IF ok THEN @
                                                 ELSE @ \cup {"deleteFirestore"}]]
    /\ UNCHANGED <<redis, redisIndex, now, live, rich, ops, lastSaved>>

\* if (!redisDeleted && !firestoreDeleted) throw
RemoveThrows_Either(okd) == okd # Stores

RemoveThrows(okd) == okd = {}

\* what lastSaved holds for an id once removeSession of it has returned normally
Removed == [removed |-> TRUE]

RemoveJoin(p) ==
    /\ p \in live
    /\ proc[p].pc = "remove"
    /\ proc[p].pend = {}
    /\ proc' = [proc EXCEPT ![p] = Return([proc[p] EXCEPT !.exc = RemoveThrows(proc[p].okw)])]
    /\ lastSaved' = IF RemoveThrows(proc[p].okw) THEN lastSaved
                    ELSE [lastSaved EXCEPT ![proc[p].sid] = Removed]
    /\ UNCHANGED <<redis, redisIndex, firestore, now, live, rich, ops, faults>>

RemoveDone(p) ==
    /\ p \in live
    /\ proc[p].pc = "removeDone"
    /\ proc' = [proc EXCEPT ![p] =
                   [proc[p] EXCEPT !.pc = "done",
                                   !.out = IF proc[p].exc THEN "throw" ELSE "ret"]]
    /\ UNCHANGED <<redis, redisIndex, firestore, now, live, rich, ops, faults, lastSaved>>

(***************************************************************************)
(* listSessions, rebalanceChartSyncStores                                  *)
(***************************************************************************)
FALLBACK_INDEX_WINDOW == 200

\* listSessionsFromRedis, lines 207-219: the indexed ids whose row is missing or
\* does not parse
StaleIds == {id \in redisIndex : parseSession(redis[id]) = None}

\* listSessionsFromRedis, lines 207-219: the parsed rows of the indexed ids
RedisSessions == {parseSession(redis[id]) : id \in redisIndex \ StaleIds}

\* orderBy('startTime', 'desc').limit(n)
MostRecent(docs, n) == {d \in docs : Cardinality({e \in docs : e.startTime > d.startTime}) < n}

FirestoreDocs == {firestore[id] : id \in {i \in SessionIds : firestore[i] # None}}

\* a filter that drops every document
HasSessionId_Never(doc) == FALSE

\* .filter(session => !!session?.sessionId)
HasSessionId(doc) == IsSession(doc) /\ doc.sessionId # <<>>

\* listSessionsFromFirestore: the most recent documents that carry a sessionId
FirestoreSessions == {d \in MostRecent(FirestoreDocs, FALLBACK_INDEX_WINDOW) : HasSessionId(d)}

\* a test that takes an empty array for a result
NonEmpty_Defined(list) == list # Null

\* a session array is [items |-> its sessions], undefined is Null:
\* redisSessions && redisSessions.length > 0
NonEmpty(list) == list # Null /\ list.items # {}

BeginAll(p, o, cont) ==
    /\ CanBegin(p)
    /\ ops' = ops - 1
    /\ proc' = [proc EXCEPT ![p] =
                   [Idle EXCEPT !.pc = "listRedis", !.cont = cont, !.op = o, !.checkedAt = now,
                                !.pre = [r |-> redis, f |-> firestore, idx |-> redisIndex]]]
    /\ UNCHANGED <<redis, redisIndex, firestore, now, live, rich, faults, lastSaved>>

\* listSessions(): const redisSessions = await listSessionsFromRedis()
StartList(p) == BeginAll(p, "list", <<"listDone">>)

\* rebalanceChartSyncStores(): const redisSessions = await listSessionsFromRedis()
StartRebalance(p) == BeginAll(p, "rebalance", <<"rebalanceDone">>)

\* the mirror writes of `sessions` into the store that did not supply them
Mirror(q, source, sessions) == [q EXCEPT !.pc = "mirror", !.src = source, !.todo = sessions, !.cnt = 0]

\* listSessionsFromRedis: undefined when the client is missing or a call throws;
\* the stale ids are removed from the index.  listSessions mirrors a non-empty
\* result at once; rebalanceChartSyncStores first reads Firestore as well.
ListRedis(p) ==
    /\ p \in live
    /\ proc[p].pc = "listRedis"
    /\ LET q == proc[p]
       IN \E ok \in Outcomes :
             LET list == IF ok THEN [items |-> RedisSessions] ELSE Null
                 r == [q EXCEPT !.rs = list,
                                !.failed = IF ok THEN @ ELSE @ \cup {"listRedis"}]
             IN /\ faults' = IF ok THEN faults ELSE faults - 1
                /\ redisIndex' = IF ok THEN redisIndex \ StaleIds ELSE redisIndex
                /\ proc' = [proc EXCEPT ![p] =
                               IF q.op # "rebalance" /\ NonEmpty(list)
                                  THEN Mirror(r, "redis", list.items)
                                  ELSE [r EXCEPT !.pc = "listFirestore"]]
    /\ UNCHANGED <<redis, firestore, now, live, rich, ops, lastSaved>>

\* listSessionsFromFirestore: [] when the query throws.  Then the non-empty
\* source is mirrored: Redis first for rebalanceChartSyncStores (lines 330-350),
\* Firestore for listSessions (lines 310-314).
ListFirestore(p) ==
    /\ p \in live
    /\ proc[p].pc = "listFirestore"
    /\ LET q == proc[p]
       IN \E ok \in Outcomes :
             LET list == [items |-> IF ok THEN FirestoreSessions ELSE {}]
                 r == [q EXCEPT !.fs = list,
                                !.failed = IF ok THEN @ ELSE @ \cup {"listFirestore"}]
             IN /\ faults' = IF ok THEN faults ELSE faults - 1
                /\ proc' = [proc EXCEPT ![p] =
                               IF q.op = "rebalance" /\ NonEmpty(q.rs)
                                  THEN Mirror(r, "redis", q.rs.items)
                                  ELSE IF NonEmpty(list)
                                          THEN Mirror(r, "firestore", list.items)
                                          ELSE Return([r EXCEPT !.src = IF q.op = "rebalance"
                                                                           THEN "none"
                                                                           ELSE "firestore"])]
    /\ UNCHANGED <<redis, redisIndex, firestore, now, live, rich, ops, lastSaved>>

\* mirrorSessionsToFirestore: one writeSessionToFirestore of Promise.all settles
MirrorFirestore(p) ==
    /\ p \in live
    /\ proc[p].pc = "mirror"
    /\ proc[p].src = "redis"
    /\ LET q == proc[p]
       IN \E session \in q.todo, ok \in Outcomes :
             /\ faults' = IF ok THEN faults ELSE faults - 1
             /\ firestore' = IF ok THEN [firestore EXCEPT ![session.sessionId] = FirestoreDoc(session)]
                                   ELSE firestore
             /\ proc' = [proc EXCEPT ![p] =
                            [q EXCEPT !.todo = @ \ {session},
                                      !.cnt = IF ok THEN @ + 1 ELSE @,
                                      !.failed = IF ok THEN @ ELSE @ \cup {"writeFirestore"}]]
    /\ UNCHANGED <<redis, redisIndex, now, live, rich, ops, lastSaved>>

\* mirrorSessionsToRedis: one writeSessionToRedis of Promise.all settles
MirrorRedis(p) ==
    /\ p \in live
    /\ proc[p].pc = "mirror"
    /\ proc[p].src = "firestore"
    /\ LET q == proc[p]
       IN \E session \in q.todo, ok \in Outcomes :
             /\ faults' = IF ok THEN faults ELSE faults - 1
             /\ redis' = IF ok THEN [redis EXCEPT ![session.sessionId] = JSONstringify(session)]
                               ELSE redis
             /\ redisIndex' = IF ok THEN redisIndex \cup {session.sessionId} ELSE redisIndex
             /\ proc' = [proc EXCEPT ![p] =
                            [q EXCEPT !.todo = @ \ {session},
                                      !.cnt = IF ok THEN @ + 1 ELSE @,
                                      !.failed = IF ok THEN @ ELSE @ \cup {"writeRedis"}]]
    /\ UNCHANGED <<firestore, now, live, rich, ops, lastSaved>>

\* results.filter(Boolean).length, once every write has settled
MirrorJoin(p) ==
    /\ p \in live
    /\ proc[p].pc = "mirror"
    /\ proc[p].todo = {}
    /\ proc' = [proc EXCEPT ![p] = Return(proc[p])]
    /\ UNCHANGED <<redis, redisIndex, firestore, now, live, rich, ops, faults, lastSaved>>

\* what listSessions returns: redisSessions (line 307) or firestoreSessions (line 314)
Listed(q) == IF q.src = "redis" THEN q.rs ELSE q.fs

ListDone(p) ==
    /\ p \in live
    /\ proc[p].pc = "listDone"
    /\ proc' = [proc EXCEPT ![p] =
                   [proc[p] EXCEPT !.pc = "done", !.out = "ret", !.res = Listed(proc[p])]]
    /\ UNCHANGED <<redis, redisIndex, firestore, now, live, rich, ops, faults, lastSaved>>

\* redisSessions?.length || 0
Count(list) == IF list = Null THEN 0 ELSE Cardinality(list.items)

\* the report of rebalanceChartSyncStores, lines 332-358
Report(q) ==
    [source |-> q.src,
     redisCount |-> IF q.src = "none" THEN 0 ELSE Count(q.rs),
     firestoreCount |-> IF q.src = "none" THEN 0 ELSE Count(q.fs),
     mirroredToFirestore |-> IF q.src = "redis" THEN q.cnt ELSE 0,
     mirroredToRedis |-> IF q.src = "firestore" THEN q.cnt ELSE 0]

RebalanceDone(p) ==
    /\ p \in live
    /\ proc[p].pc = "rebalanceDone"
    /\ proc' = [proc EXCEPT ![p] =
                   [proc[p] EXCEPT !.pc = "done", !.out = "ret", !.res = Report(proc[p])]]
    /\ UNCHANGED <<redis, redisIndex, firestore, now, live, rich, ops, faults, lastSaved>>

(***************************************************************************)
(* cleanupExpiredSessions                                                  *)
(***************************************************************************)
\* cleanupExpiredSessions(): const sessions = await listSessions()
StartCleanup(p) == BeginAll(p, "cleanup", <<"sweepInit">>)

\* let cleaned = 0; for (const session of sessions)
SweepInit(p) ==
    /\ p \in live
    /\ proc[p].pc = "sweepInit"
    /\ proc' = [proc EXCEPT ![p] =
                   [proc[p] EXCEPT !.pc = "sweep", !.todo = Listed(proc[p]).items, !.cnt = 0]]
    /\ UNCHANGED <<redis, redisIndex, firestore, now, live, rich, ops, faults, lastSaved>>

\* a sweep that takes every listed session
Sweepable_Any(session, t) == TRUE

\* if (!session.isActive || isSessionExpired(session))
Sweepable(session, t) == ~session.isActive \/ isSessionExpired(session, t)

\* the loop body for the next session: await removeSession(session.sessionId)
\* when it is inactive or expired
Sweep(p) ==
    /\ p \in live
    /\ proc[p].pc = "sweep"
    /\ LET q == proc[p]
       IN \E session \in q.todo :
             proc' = [proc EXCEPT ![p] =
                         IF Sweepable(session, now)
                            THEN [q EXCEPT !.todo = @ \ {session}, !.sid = session.sessionId,
                                           !.pc = "remove", !.cont = <<"swept">>,
                                           !.pend = Stores, !.okw = {}]
                            ELSE [q EXCEPT !.todo = @ \ {session}]]
    /\ UNCHANGED <<redis, redisIndex, firestore, now, live, rich, ops, faults, lastSaved>>

\* cleaned++ after removeSession returned; its throw is caught and logged
Swept(p) ==
    /\ p \in live
    /\ proc[p].pc = "swept"
    /\ proc' = [proc EXCEPT ![p] =
                   [proc[p] EXCEPT !.pc = "sweep", !.exc = FALSE,
                                   !.cnt = IF proc[p].exc THEN @ ELSE @ + 1]]
    /\ UNCHANGED <<redis, redisIndex, firestore, now, live, rich, ops, faults, lastSaved>>

\* return cleaned
CleanupDone(p) ==
    /\ p \in live
    /\ proc[p].pc = "sweep"
    /\ proc[p].todo = {}
    /\ proc' = [proc EXCEPT ![p] =
                   [proc[p] EXCEPT !.pc = "done", !.out = "ret", !.res = [cleaned |-> proc[p].cnt]]]
    /\ UNCHANGED <<redis, redisIndex, firestore, now, live, rich, ops, faults, lastSaved>>

(***************************************************************************)
(* The environment and the specifications                                  *)
(***************************************************************************)
\* the caller takes the result
Finish(p) ==
    /\ p \in live
    /\ proc[p].pc = "done"
    /\ proc' = [proc EXCEPT ![p] = Idle]
    /\ UNCHANGED <<redis, redisIndex, firestore, now, live, rich, ops, faults, lastSaved>>

\* Date.now() advances
Advance ==
    /\ now < MaxTime
    /\ now' = now + 1
    /\ UNCHANGED <<redis, redisIndex, firestore, proc, live, rich, ops, faults, lastSaved>>

\* what another writer can leave under a key or in a document: a payload that
\* JSON.parse rejects, or a session without its tokenMint
Unparseable == [garbage |-> TRUE]

NoToken(session) == [session EXCEPT !.tokenMint = ""]

\* a valid payload of the primary store is damaged while no operation runs
CorruptRedis ==
    /\ \A p \in live : proc[p].pc = "idle"
    /\ \E id \in SessionIds :
          /\ parseSession(redis[id]) # None
          /\ \E bad \in {Unparseable, JSONstringify(NoToken(redis[id].json))} :
                redis' = [redis EXCEPT ![id] = bad]
    /\ UNCHANGED <<redisIndex, firestore, now, proc, live, rich, ops, faults, lastSaved>>

\* a valid document of the durable store loses its tokenMint while no operation runs
CorruptFirestore ==
    /\ \A p \in live : proc[p].pc = "idle"
    /\ \E id \in SessionIds :
          /\ firestore[id] # None
          /\ firestore[id].tokenMint # ""
          /\ firestore' = [firestore EXCEPT ![id] = NoToken(firestore[id])]
    /\ UNCHANGED <<redis, redisIndex, now, proc, live, rich, ops, faults, lastSaved>>

\* ops and faults count down what the run may still start and still lose
InitWith(ps, many, nOps, nFaults) ==
    /\ redis = [id \in SessionIds |-> None]
    /\ redisIndex = {}
    /\ firestore = [id \in SessionIds |-> None]
    /\ now = 0
    /\ proc = [p \in Procs |-> Idle]
    /\ live = ps
    /\ rich = many
    /\ ops = nOps
    /\ faults = nFaults
    /\ lastSaved = [id \in SessionIds |-> None]

Init == InitWith(Procs, FALSE, MaxOps, MaxConcFaults)

InitSeq == InitWith(SeqProcs, FALSE, MaxOps, MaxFaults)

InitTicks == InitWith(SeqProcs, TRUE, MaxOps, 0)

\* one invocation at a time, of any operation
NextSeq ==
    \/ Advance
    \/ \E p \in SeqProcs :
          \/ StartTick(p) \/ StartEnd(p) \/ StartGet(p) \/ StartCreate(p)
          \/ ReadRedis(p) \/ HealFirestore(p) \/ ReadFirestore(p) \/ HealRedis(p)
          \/ WriteRedis(p) \/ WriteFirestore(p) \/ SaveJoin(p)
          \/ EndLoaded(p) \/ EndDone(p) \/ GetDone(p) \/ CreateDone(p)
          \/ TickLoaded(p) \/ TickEnded(p) \/ TickFetch(p) \/ TickSaved(p)
          \/ Finish(p)

\* ticks and ends of created sessions, two at a time, interleaved at every await
Next ==
    \/ Advance
    \/ StartCreate("p1")
    \/ \E p \in Procs :
          \/ StartTick(p) \/ StartEnd(p)
          \/ ReadRedis(p) \/ HealFirestore(p) \/ ReadFirestore(p) \/ HealRedis(p)
          \/ WriteRedis(p) \/ WriteFirestore(p) \/ SaveJoin(p)
          \/ EndLoaded(p) \/ EndDone(p) \/ CreateDone(p)
          \/ TickLoaded(p) \/ TickEnded(p) \/ TickFetch(p) \/ TickSaved(p)
          \/ Finish(p)

Spec == Init /\ [][Next]_vars

SpecSeq == InitSeq /\ [][NextSeq]_vars

\* creations and ticks, one at a time, with both backends available, over many
\* tick inputs
NextTicks ==
    \/ Advance
    \/ \E p \in SeqProcs :
          \/ StartTick(p) \/ StartCreate(p)
          \/ ReadRedis(p) \/ HealFirestore(p) \/ ReadFirestore(p)
          \/ WriteRedis(p) \/ WriteFirestore(p) \/ SaveJoin(p)
          \/ EndLoaded(p) \/ CreateDone(p)
          \/ TickLoaded(p) \/ TickEnded(p) \/ TickFetch(p) \/ TickSaved(p)
          \/ Finish(p)

SpecTicks == InitTicks /\ [][NextTicks]_vars

InitStore == InitWith(SeqProcs, FALSE, MaxOps, MaxFaults)

\* the store operations, one at a time, for callers with several tokens
NextStore ==
    \/ Advance
    \/ \E p \in SeqProcs :
          \/ StartCreateAny(p) \/ StartEnd(p) \/ StartRemove(p)
          \/ ReadRedis(p) \/ HealFirestore(p) \/ ReadFirestore(p) \/ HealRedis(p)
          \/ WriteRedis(p) \/ WriteFirestore(p) \/ SaveJoin(p)
          \/ EndLoaded(p) \/ EndDone(p) \/ CreateDone(p)
          \/ DeleteRedis(p) \/ DeleteFirestore(p) \/ RemoveJoin(p) \/ RemoveDone(p)
          \/ Finish(p)

SpecStore == InitStore /\ [][NextStore]_vars

InitList == InitWith(SeqProcs, FALSE, MaxOps, MaxFaults)

\* creations, ends, listings, rebalances and sweeps, one at a time
NextList ==
    \/ Advance
    \/ \E p \in SeqProcs :
          \/ StartCreate(p) \/ StartEnd(p)
          \/ StartList(p) \/ StartRebalance(p) \/ StartCleanup(p)
          \/ ReadRedis(p) \/ HealFirestore(p) \/ ReadFirestore(p) \/ HealRedis(p)
          \/ WriteRedis(p) \/ WriteFirestore(p) \/ SaveJoin(p)
          \/ EndLoaded(p) \/ EndDone(p) \/ CreateDone(p)
          \/ ListRedis(p) \/ ListFirestore(p)
          \/ MirrorFirestore(p) \/ MirrorRedis(p) \/ MirrorJoin(p)
          \/ ListDone(p) \/ RebalanceDone(p)
          \/ SweepInit(p) \/ Sweep(p) \/ Swept(p) \/ CleanupDone(p)
          \/ DeleteRedis(p) \/ DeleteFirestore(p) \/ RemoveJoin(p)
          \/ Finish(p)

SpecList == InitList /\ [][NextList]_vars

InitCorrupt == InitWith(SeqProcs, FALSE, MaxOps, 0)

\* creations, loads and listings, one at a time, with both backends available,
\* over stores whose records another writer can damage
NextCorrupt ==
    \/ Advance
    \/ CorruptRedis
    \/ CorruptFirestore
    \/ \E p \in SeqProcs :
          \/ StartCreate(p) \/ StartGet(p) \/ StartList(p)
          \/ ReadRedis(p) \/ HealFirestore(p) \/ ReadFirestore(p) \/ HealRedis(p)
          \/ WriteRedis(p) \/ WriteFirestore(p) \/ SaveJoin(p)
          \/ CreateDone(p) \/ GetDone(p)
          \/ ListRedis(p) \/ ListFirestore(p)
          \/ MirrorFirestore(p) \/ MirrorRedis(p) \/ MirrorJoin(p)
          \/ ListDone(p)
          \/ Finish(p)

SpecCorrupt == InitCorrupt /\ [][NextCorrupt]_vars

(***************************************************************************)
(* The pure functions, each applied to inputs drawn from a bounded set.    *)
(* A call leaves its arguments in pre and its result in res.               *)
(***************************************************************************)
Called(name, args, result) ==
    /\ proc' = [proc EXCEPT !["p1"] = [Idle EXCEPT !.pc = "done", !.op = name, !.out = "ret",
                                                    !.pre = args, !.res = result]]
    /\ UNCHANGED <<redis, redisIndex, firestore, now, live, rich, ops, faults, lastSaved>>

\* one call is made, from the state after construction
Calling == proc["p1"].pc = "idle"

\* speeds that reach applyRateLimit: any target a mode, the booster and the
\* variation can produce, any last value the clamps can leave
TargetSpeeds == (MIN_SPEED - MaxSpeedVariance - 1)..(MAX_SPEED + MaxSpeedVariance + 1)
LastSpeeds == MIN_SPEED..MAX_SPEED
TargetAmplitudes == (MIN_AMP - MaxAmpVariance - 1)..(MAX_AMP + MaxAmpVariance + 1)
LastAmplitudes == MIN_AMP..MAX_AMP

\* every pair of speeds with one pair of amplitudes, and every pair of
\* amplitudes with one pair of speeds
RateLimitInputs ==
    [targetSpeed : TargetSpeeds, lastSpeed : LastSpeeds,
     targetAmplitude : {DefaultAmplitude}, lastAmplitude : {DefaultAmplitude}]
    \cup [targetSpeed : {DefaultSpeed}, lastSpeed : {DefaultSpeed},
          targetAmplitude : TargetAmplitudes, lastAmplitude : LastAmplitudes]

CallApplyRateLimit ==
    /\ Calling
    /\ \E in \in RateLimitInputs :
       Called("applyRateLimit", in,
              applyRateLimit(in.targetSpeed, in.targetAmplitude, in.lastSpeed, in.lastAmplitude))

CallAmplitudeToRange ==
    /\ Calling
    /\ \E amplitude \in MIN_AMP..MAX_AMP :
       Called("amplitudeToRange", [amplitude |-> amplitude], amplitudeToRange(amplitude))

\* normalised scores in per-mille: the ends, the values on both sides of the
\* 0.05 default threshold, and values whose weighted scores tie
\* (0.462 x 1.0 = 0.42 x 1.1 = 0.385 x 1.2 = 0.44 x 1.05; 0.66 x 1.0 = 0.6 x 1.1 = 0.55 x 1.2)
TrendScores == {0, 49, 50, 462, 660, 1000}
ChopScores == {0, 45, 46, 420, 600, 1000}
AccelScores == {0, 41, 42, 385, 550, 1000}
DevScores == {0, 47, 48, 440, 1000}
LiqScores == {0, 349, 350, 351, 899, 900, 1000}

ScoreParams == [weightTrend |-> 500, weightChop |-> 500]

CallSelectModeFromMetrics ==
    /\ Calling
    /\ \E t \in TrendScores, c \in ChopScores, a \in AccelScores, d \in DevScores, l \in LiqScores :
       LET metrics == [NeutralMetrics EXCEPT !.trend = t, !.chop = c, !.accel = a,
                                             !.dev = d, !.liq = l]
       IN Called("selectModeFromMetrics", metrics, [mode |-> selectModeFromMetrics(metrics, ScoreParams)])

CallModeLiquidityPanic ==
    /\ Calling
    /\ \E t \in {0, 500, 1000}, c \in {0, 500, 1000}, l \in 0..1000 :
       LET metrics == [NeutralMetrics EXCEPT !.trend = t, !.chop = c, !.liq = l]
       IN Called("modeLiquidityPanic", metrics, modeLiquidityPanic(metrics, ScoreParams))

\* createSession, lines 153-162: the seed and the mode parameters of a config;
\* a startTime or initialModeId of 0 stands for one the caller left out
StartTimeOf(config, t) == IF config.startTime # 0 THEN config.startTime ELSE t

InitialModeOf(config) == IF config.initialModeId # 0 THEN config.initialModeId ELSE 1

Derived(config, t) ==
    LET seed == generateSeed(CharCodes(config.sessionStateId), CharCodes(config.tokenMint),
                             StartTimeOf(config, t))
    IN [seed |-> seed, modeParams |-> generateModeParams(seed, InitialModeOf(config))]

Configs ==
    [sessionStateId : {"a", "state"},
     tokenMint : {"T", "U"},
     startTime : {0, 1, 59999, 60000, 1999999999},
     initialModeId : {0, 1, 2, 5}]

\* two createSession calls
CallDerive ==
    /\ Calling
    /\ \E c1 \in Configs, c2 \in Configs :
       Called("createSession", [first |-> c1, second |-> c2],
              [first |-> Derived(c1, now), second |-> Derived(c2, now)])

InitFun == InitWith(SeqProcs, FALSE, 0, 0)

\* applyRangeDrift over every window amplitudeToRange produces and every drift
\* applyExpressiveVariation can return (an integer clamped to [-12, 12]).
Drifts == (0 - MaxDrift)..MaxDrift

CommandSpeeds == {MIN_SPEED, MAX_SPEED}

CallApplyRangeDrift ==
    /\ Calling
    /\ \E amplitude \in MIN_AMP..MAX_AMP, drift \in Drifts, speed \in CommandSpeeds :
       LET window == amplitudeToRange(amplitude)
           command == [speed |-> speed, minY |-> window.minY, maxY |-> window.maxY]
       IN Called("applyRangeDrift", [command |-> command, drift |-> drift],
                 applyRangeDrift(command, drift))

NextFun ==
    \/ CallApplyRateLimit
    \/ CallAmplitudeToRange
    \/ CallApplyRangeDrift
    \/ CallSelectModeFromMetrics
    \/ CallModeLiquidityPanic
    \/ CallDerive

SpecFun == InitFun /\ [][NextFun]_vars

(***************************************************************************)
(* The per-tick computation called repeatedly and by two callers.  Each    *)
(* caller keeps in rs the state its last generator was left in, so that a  *)
(* generator surviving a call would show in the next call's result.  The   *)
(* trigonometric and floating-point arithmetic of applyExpressiveVariation *)
(* is a fixed function of its arguments; a result is recorded as those     *)
(* arguments: the generator's draws and the inputs they are combined with. *)
(***************************************************************************)
MaxCalls == 3

\* a generator that outlives the call that made it
SeededRandom_Shared(held, seed) == IF held = None THEN [seed |-> seed] ELSE held

\* new SeededRandom(seed): a generator of its own, its seed field set to the seed
SeededRandom(held, seed) == [seed |-> seed]

applyExpressiveVariation(held, session, elapsedSteps, metrics, speed, amplitude) ==
    LET rng == SeededRandom(held, session.seed + elapsedSteps * 7919 + session.modeId * 3571)
        draws == Stream(rng.seed, 4)
        volatility == [chop |-> metrics.chop, accel |-> metrics.accel, vol |-> metrics.vol]
        swing == [elapsedSteps |-> elapsedSteps, next |-> draws[1], modeId |-> session.modeId]
        pulse == [elapsedSteps |-> elapsedSteps, next |-> draws[2], modeId |-> session.modeId]
    IN [speed |-> [speed |-> speed, volatility |-> volatility, swing |-> swing,
                   range |-> draws[3]],
        amplitude |-> [amplitude |-> amplitude, volatility |-> volatility, pulse |-> pulse,
                       range |-> draws[4]],
        drift |-> [directionalBias |-> IF metrics.trend >= 0 THEN 1 ELSE -1,
                   volatility |-> volatility, dev |-> metrics.dev,
                   devSign |-> metrics.devSign],
        rng |-> [seed |-> draws[4]]]

VariationSeeds == {1, 7920}
ElapsedSteps == {0, 1}
VariationModes == {1, 2}
VariationMetrics == {NeutralMetrics, TrendMetrics}

VariationInputs ==
    [seed : VariationSeeds, elapsedSteps : ElapsedSteps, modeId : VariationModes,
     metrics : VariationMetrics, speed : {DefaultSpeed}, amplitude : {DefaultAmplitude}]

ModeInputs ==
    [metrics : {NeutralMetrics, TrendMetrics, PanicMetrics},
     modeParams : {[weightTrend |-> w, weightChop |-> 1000 - w] : w \in {500, 750}}]

CanCall(p) == p \in live /\ ops > 0 /\ proc[p].pc \in {"idle", "done"}

Returned(p, name, args, result, rng) ==
    /\ proc' = [proc EXCEPT ![p] = [Idle EXCEPT !.pc = "done", !.op = name, !.out = "ret",
                                                !.pre = args, !.res = result, !.rs = rng,
                                                !.cnt = proc[p].cnt + 1]]
    /\ ops' = ops - 1
    /\ UNCHANGED <<redis, redisIndex, firestore, now, live, rich, faults, lastSaved>>

Vary(p) ==
    /\ CanCall(p)
    /\ \E in \in VariationInputs :
       LET expressive == applyExpressiveVariation(proc[p].rs,
                                                  [seed |-> in.seed, modeId |-> in.modeId],
                                                  in.elapsedSteps, in.metrics, in.speed,
                                                  in.amplitude)
       IN Returned(p, "applyExpressiveVariation", in,
                   [speed |-> expressive.speed, amplitude |-> expressive.amplitude,
                    drift |-> expressive.drift], expressive.rng)

SelectMode(p) ==
    /\ CanCall(p)
    /\ \E in \in ModeInputs :
       LET selectedModeId == selectModeFromMetrics(in.metrics, in.modeParams)
           modeResult == computeMode(selectedModeId, in.metrics, in.modeParams)
       IN Returned(p, "computeMode", in,
                   [modeId |-> selectedModeId, modeResult |-> modeResult], proc[p].rs)

InitCalls == InitWith(Procs, FALSE, MaxCalls, 0)

NextCalls == \E p \in Procs : Vary(p) \/ SelectMode(p)

SpecCalls == InitCalls /\ [][NextCalls]_vars

(***************************************************************************)
(* Smoothing towards a constant target: successive ticks pass the same     *)
(* target to applySafetyPipeline and each tick's output is the next tick's *)
(* last value (session.lastSpeed, session.lastAmplitude).  The two values  *)
(* are limited independently, so each is followed over its whole range     *)
(* while the other starts from the session defaults.  cnt counts the ticks *)
(* that changed a value.  The cron keeps ticking, hence the fairness.      *)
(***************************************************************************)
SmoothingInputs ==
    [targetSpeed : MIN_SPEED..MAX_SPEED, targetAmplitude : {DefaultAmplitude},
     lastSpeed : MIN_SPEED..MAX_SPEED, lastAmplitude : {DefaultAmplitude}]
    \cup [targetSpeed : {DefaultSpeed}, targetAmplitude : MIN_AMP..MAX_AMP,
          lastSpeed : {DefaultSpeed}, lastAmplitude : MIN_AMP..MAX_AMP]

\* applySafetyPipeline on each of these inputs, the anti-bored floor disabled;
\* the comparison has the function enumerated once instead of at every use
SafetyResults ==
    CHOOSE f \in {[in \in SmoothingInputs |->
                      applySafetyPipeline(in.targetSpeed, in.targetAmplitude,
                                          in.lastSpeed, in.lastAmplitude, FALSE)]} : f = f

StartSmoothing ==
    /\ Calling
    /\ \E in \in SmoothingInputs :
          proc' = [proc EXCEPT !["p1"] =
                      [Idle EXCEPT !.pc = "smooth", !.op = "applySafetyPipeline",
                                   !.pre = [targetSpeed |-> in.targetSpeed,
                                            targetAmplitude |-> in.targetAmplitude],
                                   !.res = [speed |-> in.lastSpeed,
                                            amplitude |-> in.lastAmplitude]]]
    /\ UNCHANGED <<redis, redisIndex, firestore, now, live, rich, ops, faults, lastSaved>>

Smooth ==
    /\ proc["p1"].pc = "smooth"
    /\ LET q == proc["p1"]
           safetyResult == SafetyResults[[targetSpeed |-> q.pre.targetSpeed,
                                          targetAmplitude |-> q.pre.targetAmplitude,
                                          lastSpeed |-> q.res.speed,
                                          lastAmplitude |-> q.res.amplitude]]
           last == [speed |-> safetyResult.speed, amplitude |-> safetyResult.amplitude]
       IN proc' = [proc EXCEPT !["p1"] =
                      [q EXCEPT !.res = last,
                                !.cnt = IF last = q.res THEN q.cnt ELSE q.cnt + 1]]
    /\ UNCHANGED <<redis, redisIndex, firestore, now, live, rich, ops, faults, lastSaved>>

InitSmooth == InitWith(SeqProcs, FALSE, 0, 0)

NextSmooth == StartSmoothing \/ Smooth

SpecSmooth == InitSmooth /\ [][NextSmooth]_vars /\ WF_vars(Smooth)

(***************************************************************************)
(* The start paths (autoblow/session/route.ts 'start', autoblow/route.ts   *)
(* 'start', tryRestoreSessionFromFirestore of tick/route.ts): each awaits  *)
(* getActiveSessionForToken(tokenMint) and, when it returns nothing, calls *)
(* createSession.  Two requests may be in flight at once.  A session lasts *)
(* beyond the times the model reaches.                                     *)
(***************************************************************************)
StartDurations == {MaxTime + 1}

\* const existing = await getActiveSessionForToken(tokenMint): listSessions() first
StartRequest(p) ==
    /\ CanBegin(p)
    /\ ops' = ops - 1
    /\ \E tokenMint \in Tokens :
          proc' = [proc EXCEPT ![p] =
                      [Idle EXCEPT !.pc = "listRedis", !.cont = <<"startChecked">>,
                                   !.op = "start", !.checkedAt = now,
                                   !.pre = [r |-> redis, f |-> firestore, idx |-> redisIndex,
                                            tokenMint |-> tokenMint]]]
    /\ UNCHANGED <<redis, redisIndex, firestore, now, live, rich, faults, lastSaved>>

\* the sessions the loop of getActiveSessionForToken would return
ActiveForToken(sessions, tokenMint, t) ==
    {session \in sessions :
        session.tokenMint = tokenMint /\ session.isActive /\ ~isSessionExpired(session, t)}

\* if (existing) the request answers with it; otherwise createSession(...)
StartChecked(p) ==
    /\ p \in live
    /\ proc[p].pc = "startChecked"
    /\ LET q == proc[p]
           existing == ActiveForToken(Listed(q).items, q.pre.tokenMint, now)
       IN IF existing # {}
             THEN \E session \in existing :
                     proc' = [proc EXCEPT ![p] =
                                 [q EXCEPT !.pc = "done", !.out = "ret", !.res = session,
                                           !.sid = session.sessionId, !.path = "existing"]]
             ELSE \E stateId \in StateIds, durationMs \in StartDurations,
                     w \in WeightTrends, s0 \in InitialSpeeds, a0 \in InitialAmplitudes :
                     LET session == NewSession(stateId, q.pre.tokenMint, now, durationMs,
                                               w, s0, a0)
                     IN proc' = [proc EXCEPT ![p] =
                                    [q EXCEPT !.pc = "save", !.cont = <<"createDone">>,
                                              !.sid = session.sessionId,
                                              !.session = session, !.pend = Stores,
                                              !.okw = {}, !.path = "created"]]
    /\ UNCHANGED <<redis, redisIndex, firestore, now, live, rich, ops, faults, lastSaved>>

InitStarts == InitWith(Procs, FALSE, MaxOps, 0)

NextStarts ==
    \/ Advance
    \/ \E p \in Procs :
          \/ StartRequest(p) \/ StartChecked(p)
          \/ ListRedis(p) \/ ListFirestore(p)
          \/ MirrorFirestore(p) \/ MirrorRedis(p) \/ MirrorJoin(p)
          \/ WriteRedis(p) \/ WriteFirestore(p) \/ SaveJoin(p) \/ CreateDone(p)
          \/ Finish(p)

SpecStarts == InitStarts /\ [][NextStarts]_vars

\* creations, removals, loads and listings, one at a time, with backend failures
InitRemove == InitWith(SeqProcs, FALSE, MaxOps, MaxFaults)

NextRemove ==
    \/ Advance
    \/ \E p \in SeqProcs :
          \/ StartCreate(p) \/ StartRemove(p) \/ StartGet(p) \/ StartList(p)
          \/ ReadRedis(p) \/ HealFirestore(p) \/ ReadFirestore(p) \/ HealRedis(p)
          \/ WriteRedis(p) \/ WriteFirestore(p) \/ SaveJoin(p) \/ CreateDone(p)
          \/ DeleteRedis(p) \/ DeleteFirestore(p) \/ RemoveJoin(p) \/ RemoveDone(p)
          \/ ListRedis(p) \/ ListFirestore(p)
          \/ MirrorFirestore(p) \/ MirrorRedis(p) \/ MirrorJoin(p)
          \/ GetDone(p) \/ ListDone(p)
          \/ Finish(p)

SpecRemove == InitRemove /\ [][NextRemove]_vars

(***************************************************************************)
(* One session polled for long: the caller begins its next operation one   *)
(* time unit after the last one returned, both backends are available, and *)
(* the session outlives the run.                                           *)
(***************************************************************************)
LongTime == LongOps

LongDurations == {LongTime + 1}

\* createSession for the one session of the run
CreateLong(p) ==
    /\ KnownIds = {}
    /\ now <= MaxTime
    /\ CreateFor(p, Tokens, LongDurations)

\* the operation has returned; the next poll is one time unit later
Elapse(p) ==
    /\ p \in live
    /\ proc[p].pc = "done"
    /\ now < LongTime
    /\ now' = now + 1
    /\ proc' = [proc EXCEPT ![p] = Idle]
    /\ UNCHANGED <<redis, redisIndex, firestore, live, rich, ops, faults, lastSaved>>

InitLong == InitWith(SeqProcs, FALSE, LongOps, 0)

NextLong ==
    \E p \in SeqProcs :
       \/ CreateLong(p) \/ StartTick(p)
       \/ ReadRedis(p) \/ HealFirestore(p) \/ ReadFirestore(p)
       \/ WriteRedis(p) \/ WriteFirestore(p) \/ SaveJoin(p)
       \/ CreateDone(p) \/ TickLoaded(p) \/ TickFetch(p) \/ TickSaved(p)
       \/ Elapse(p)

SpecLong == InitLong /\ [][NextLong]_vars

(***************************************************************************)
(* Properties                                                              *)
(***************************************************************************)
\* the session a Redis payload holds, read off the payload itself
Decode(raw) == IF "json" \in DOMAIN raw THEN raw.json ELSE None

InRedis(id) == Sess(Decode(redis[id]))
InFirestore(id) == Sess(firestore[id])

TickDone(q) == q.op = "tick" /\ q.pc = "done"

\* C1: every command processSessionTick returns on its normal path (session
\* found, not expired, save accepted) has speed, minY, maxY in [0,100] and
\* minY < maxY, i.e. validateCommand accepts it.
C1_NormalPathCommandValid ==
    \A p \in Procs :
       (TickDone(proc[p]) /\ proc[p].path = "pipeline" /\ proc[p].out = "ret")
          => validateCommand(proc[p].res)

DeviceRange(s) ==
    /\ s.lastSpeed \in MIN_SPEED..MAX_SPEED
    /\ s.lastAmplitude \in MIN_AMP..MAX_AMP

RanPipeline(q) ==
    /\ q.op = "tick"
    /\ q.path \in {"pipeline", "fallback"}
    /\ q.pc \in {"save", "tickSaved", "done"}

\* C2: after every tick that runs the pipeline the session's lastSpeed is an
\* integer in [0,100] and its lastAmplitude an integer in [0,50], in the tick's
\* own session object and in every record a backend holds.
C2_LastValuesInRange ==
    /\ \A p \in Procs : RanPipeline(proc[p]) => DeviceRange(proc[p].session)
    /\ \A id \in SessionIds :
          /\ InRedis(id) # None => DeviceRange(InRedis(id))
          /\ InFirestore(id) # None => DeviceRange(InFirestore(id))

\* C2 witness: a tick ran the pipeline from an amplitude above 0, its target
\* was below the device range, and the clamped amplitude 0 was persisted.
C2_Witness ==
    \E p \in Procs :
       /\ TickDone(proc[p]) /\ proc[p].path = "pipeline"
       /\ proc[p].first.lastAmplitude > MIN_AMP
       /\ proc[p].session.lastAmplitude = MIN_AMP
       /\ InRedis(proc[p].sid) = Sess(proc[p].session)
       /\ InFirestore(proc[p].sid) = Sess(proc[p].session)

RedisEnded(id) == InRedis(id) # None /\ ~InRedis(id).isActive
RedisActive(id) == InRedis(id) # None /\ InRedis(id).isActive
FirestoreEnded(id) == InFirestore(id) # None /\ ~InFirestore(id).isActive
FirestoreActive(id) == InFirestore(id) # None /\ InFirestore(id).isActive

\* the step belongs to a createSession invocation
CreateStep == \E p \in Procs : proc[p].op = "create" /\ proc'[p] # proc[p]

\* C3: the ended state is terminal: once a backend's record of a session has
\* isActive = false, no step of a tick, an end or a load makes that backend's
\* record of the session active again.
C3_EndedIsTerminal ==
    [][\A id \in SessionIds :
          \/ CreateStep
          \/ /\ RedisEnded(id) => ~RedisActive(id)'
             /\ FirestoreEnded(id) => ~FirestoreActive(id)']_vars

\* C4: processSessionTick never throws: whatever the backends do, it ends by
\* returning a command or null.
C4_TickNeverThrows ==
    \A p \in Procs : TickDone(proc[p]) => proc[p].out = "ret"

\* C5: processSessionTick returns null when there is no active session: when
\* loadSession found nothing, and when the loaded session has isActive = false
\* and is not expired; in the latter case both backends' records stay as they
\* were when the tick began.
C5_InactiveTickReturnsNull ==
    \A p \in Procs :
       LET q == proc[p]
       IN (TickDone(q) /\ q.out = "ret") =>
             /\ q.first = None => q.res = Null
             /\ (q.first # None /\ ~q.first.isActive /\ q.checkedAt < q.first.endTime)
                   => /\ q.res = Null
                      /\ InRedis(q.sid) = Sess(Decode(q.pre.r))
                      /\ InFirestore(q.sid) = Sess(q.pre.f)

\* C6: store round trip: once saveSession(s) has returned successfully (at most
\* one of its writes failed), a following loadSession(s.sessionId), here even
\* one during which no backend call fails, returns a session equal to s
\* (lastSaved holds the s of the latest successful save).
C6_RoundTrip ==
    \A p \in Procs :
       LET q == proc[p]
       IN (q.op = "get" /\ q.pc = "done" /\ lastSaved[q.sid] # None
              /\ q.failed = {})
             => Sess(q.res) = lastSaved[q.sid]

\* saveSession has just returned to its caller, or thrown
SaveReturned(q) ==
    /\ q.pc \in {"tickSaved", "tickEnded", "endDone", "createDone"}
    /\ q.session # None

\* C7: saveSession issues both writes and returns normally exactly when at
\* least one of them succeeded (it throws only when both failed), and on return
\* every backend whose write succeeded holds exactly the saved session.
C7_SaveOutcome ==
    \A p \in Procs :
       LET q == proc[p]
       IN SaveReturned(q) =>
             /\ q.pend = {}
             /\ "redis" \in q.okw \/ "writeRedis" \in q.failed
             /\ "firestore" \in q.okw \/ "writeFirestore" \in q.failed
             /\ q.exc <=> (q.okw = {})
             /\ "redis" \in q.okw => redis[q.sid] = JSONstringify(q.session)
             /\ "firestore" \in q.okw => InFirestore(q.sid) = Sess(q.session)

\* C7 witness: a save returned normally although the Redis write had failed,
\* and Firestore holds the saved session.
C7_Witness ==
    \E p \in Procs :
       /\ SaveReturned(proc[p])
       /\ proc[p].okw = {"firestore"}
       /\ ~proc[p].exc
       /\ InFirestore(proc[p].sid) = Sess(proc[p].session)

\* C8: loadSession(id): when the Redis read answers with a valid record, that
\* record is returned and written to Firestore; when Redis gives nothing and
\* the Firestore read answers with a record, that record is returned and
\* written to Redis; when both give nothing, undefined is returned and neither
\* backend is written.  (A heal write lands unless the backend rejects it.)
C8_LoadSession ==
    \A p \in Procs :
       LET q == proc[p]
           r0 == Decode(q.pre.r)
           f0 == q.pre.f
           redisHit == r0 # None /\ "readRedis" \notin q.failed
           firestoreHit == f0 # None /\ "readFirestore" \notin q.failed
       IN (q.op = "get" /\ q.pc = "done") =>
             /\ redisHit =>
                   /\ q.res = r0
                   /\ redis[q.sid] = q.pre.r
                   /\ \/ firestore[q.sid] = FirestoreDoc(r0)
                      \/ "writeFirestore" \in q.failed /\ firestore[q.sid] = f0
             /\ (~redisHit /\ firestoreHit) =>
                   /\ q.res = f0
                   /\ firestore[q.sid] = f0
                   /\ \/ redis[q.sid] = JSONstringify(f0)
                      \/ "writeRedis" \in q.failed /\ redis[q.sid] = q.pre.r
             /\ (~redisHit /\ ~firestoreHit) =>
                   /\ q.res = None
                   /\ Snapshot(q.sid) = q.pre

\* C8 witness: Redis had no record, Firestore had one; the load returned it and
\* now Redis holds it too.
C8_Witness ==
    \E p \in Procs :
       /\ proc[p].op = "get" /\ proc[p].pc = "done"
       /\ proc[p].pre.r = None /\ proc[p].pre.f # None
       /\ proc[p].res = proc[p].pre.f
       /\ redis[proc[p].sid] = JSONstringify(proc[p].pre.f)

\* two ticks of one session whose pipeline runs overlapped (both loaded before
\* either saved), both finished, started from stores that agreed on the session
OverlappedTicks(p, o) ==
    /\ p # o
    /\ TickDone(proc[p]) /\ TickDone(proc[o])
    /\ proc[p].sid = proc[o].sid
    /\ proc[p].ovl /\ proc[o].ovl
    /\ Sess(Decode(proc[p].pre.r)) = Sess(proc[p].pre.f)
    /\ Sess(Decode(proc[o].pre.r)) = Sess(proc[p].pre.f)
    /\ Sess(proc[o].pre.f) = Sess(proc[p].pre.f)
    /\ proc[p].pre.f # None

WithinStep(s, before) ==
    /\ Abs(s.lastSpeed - before.lastSpeed) <= MAX_SPEED_CHANGE
    /\ Abs(s.lastAmplitude - before.lastAmplitude) <= MAX_AMP_CHANGE

\* C9: when two ticks of the same session overlap (both load before either
\* saves), the lastSpeed every backend holds afterwards differs from the
\* pre-tick value by at most 25 and the lastAmplitude by at most 15.
C9_OverlapWithinOneStep ==
    \A p, o \in Procs :
       OverlappedTicks(p, o) =>
          /\ InRedis(proc[p].sid) # None
                => WithinStep(InRedis(proc[p].sid), proc[p].pre.f)
          /\ InFirestore(proc[p].sid) # None
                => WithinStep(InFirestore(proc[p].sid), proc[p].pre.f)

\* C9 witness: two overlapping ticks finished and the persisted lastSpeed sits
\* exactly 25 away from the pre-tick value (the cap acted).
C9_Witness ==
    \E p, o \in Procs :
       /\ OverlappedTicks(p, o)
       /\ InRedis(proc[p].sid) # None /\ InFirestore(proc[p].sid) # None
       /\ Abs(InRedis(proc[p].sid).lastSpeed - proc[p].pre.f.lastSpeed) = MAX_SPEED_CHANGE
       /\ Abs(InFirestore(proc[p].sid).lastSpeed - proc[p].pre.f.lastSpeed) = MAX_SPEED_CHANGE

\* a finished tick that found its session with now >= endTime
TickExpired(q) ==
    /\ TickDone(q)
    /\ q.first # None
    /\ q.checkedAt >= q.first.endTime

EndedCopy(s) == [Sess(s) EXCEPT !.isActive = FALSE]

\* C10: a tick at now >= endTime that returns, returns exactly
\* {speed 0, minY 50, maxY 50}; when no backend call of the tick failed, both
\* backends then hold the loaded session with isActive = false and lastSpeed,
\* lastAmplitude, modeId, boosterStep and candleBuffer (and every other field)
\* unchanged.
C10_ExpiryStops ==
    \A p \in Procs :
       LET q == proc[p]
       IN TickExpired(q) =>
             /\ q.out = "ret" => q.res = StopCommand
             /\ q.failed = {} =>
                   /\ q.out = "ret"
                   /\ InRedis(q.sid) = EndedCopy(q.first)
                   /\ InFirestore(q.sid) = EndedCopy(q.first)

\* C10 witness: a tick exactly at endTime of a session that was active, with no
\* backend failure, returned the stop command and left the session ended.
C10_Witness ==
    \E p \in Procs :
       /\ TickExpired(proc[p])
       /\ proc[p].checkedAt = proc[p].first.endTime
       /\ proc[p].first.isActive
       /\ proc[p].failed = {}
       /\ proc[p].res = StopCommand
       /\ InRedis(proc[p].sid) = EndedCopy(proc[p].first)

\* C11: when the pipeline of a tick fails internally (here: the save is
\* rejected by both backends), processSessionTick returns the fallback command
\* {max(20, lastSpeed - 10), 40, 60} with lastSpeed the value loaded at the
\* start of that tick, and the stored records of the session are the ones the
\* tick found, still loadable by a later tick.
C11_FallbackFromLoadedSpeed ==
    \A p \in Procs :
       LET q == proc[p]
       IN (TickDone(q) /\ q.path = "fallback") =>
             /\ q.out = "ret"
             /\ q.res = FallbackCommand(q.first.lastSpeed)
             /\ InRedis(q.sid) = Sess(Decode(q.pre.r))
             /\ InFirestore(q.sid) = Sess(q.pre.f)

\* what a loadSession(id) on which every backend call succeeds returns
LoadWouldReturn(id) ==
    IF parseSession(redis[id]) # None THEN parseSession(redis[id]) ELSE firestore[id]

\* the session the invocation's loadSession returned, from the records it found
Loaded(q) ==
    IF "readRedis" \notin q.failed /\ Decode(q.pre.r) # None
       THEN Decode(q.pre.r)
       ELSE q.pre.f

EndFound(q) == q.op = "end" /\ q.pc = "done" /\ q.session # None

\* C12: endSession(id) on an existing session persists it with isActive = false
\* and every other field unchanged, and does not delete the record: once
\* endSession has returned, a following loadSession(id) (every backend call of
\* which succeeds) returns the loaded session with isActive = false.
C12_EndFrame ==
    \A p \in Procs :
       LET q == proc[p]
       IN (EndFound(q) /\ q.out = "ret") =>
             /\ LoadWouldReturn(q.sid) # None
             /\ Sess(LoadWouldReturn(q.sid)) = EndedCopy(Loaded(q))

CreateReturned(q) == q.op = "create" /\ q.pc = "done"

\* C13: createSession persists immediately: it throws only when both backends
\* rejected the write, and when it returns, a loadSession(sessionId) (every
\* backend call of which succeeds) yields the created session: isActive true,
\* boosterStep 0, empty candleBuffer, endTime = startTime + duration,
\* lastSpeed/lastAmplitude the configured or default initial values.
C13_CreatePersists ==
    \A p \in Procs :
       LET q == proc[p]
           got == LoadWouldReturn(q.sid)
       IN CreateReturned(q) =>
             /\ q.out = "throw" => q.okw = {}
             /\ q.out = "ret" =>
                   /\ got # None
                   /\ Sess(got) = Sess(q.session)
                   /\ got.isActive /\ got.boosterStep = 0 /\ got.candleBuffer = <<>>
                   /\ got.endTime - got.startTime \in Durations
                   /\ got.lastSpeed \in InitialSpeeds
                   /\ got.lastAmplitude \in InitialAmplitudes

\* the (sessionStateId, tokenMint, startTime) a session was created from
Triple(s) == <<s.sessionId[1], s.tokenMint, s.startTime>>

\* C14: sessionId is unique per (stateId, tokenMint, startTime): a createSession
\* whose triple differs from that of a session already stored gets a different
\* sessionId, and so leaves that session's stored record as it was.
C14_SessionIdUnique ==
    \A p \in Procs :
       LET q == proc[p]
       IN q.op = "create" =>
             /\ (Decode(q.pre.r) # None /\ Triple(Decode(q.pre.r)) # Triple(q.session))
                   => /\ Decode(q.pre.r).sessionId # q.session.sessionId
                      /\ redis[q.sid] = q.pre.r
             /\ (q.pre.f # None /\ Triple(q.pre.f) # Triple(q.session))
                   => /\ q.pre.f.sessionId # q.session.sessionId
                      /\ firestore[q.sid] = q.pre.f

RemoveReturned(q) == q.op = "remove" /\ q.pc \in {"removeDone", "done"}

\* C15: removeSession(id) issues a delete to both backends and returns normally
\* exactly when at least one delete succeeded (it throws only when both
\* failed); a backend whose delete succeeded no longer holds the record.
C15_RemoveOutcome ==
    \A p \in Procs :
       LET q == proc[p]
       IN RemoveReturned(q) =>
             /\ q.pend = {}
             /\ "redis" \in q.okw \/ "deleteRedis" \in q.failed
             /\ "firestore" \in q.okw \/ "deleteFirestore" \in q.failed
             /\ q.exc <=> (q.okw = {})
             /\ q.pc = "done" => ((q.out = "ret") <=> (q.okw # {}))
             /\ "redis" \in q.okw => redis[q.sid] = None /\ q.sid \notin redisIndex
             /\ "firestore" \in q.okw => firestore[q.sid] = None

\* C15 witness: a remove of a stored session returned normally although the
\* Redis delete had failed; Firestore no longer holds it, Redis still does.
C15_Witness ==
    \E p \in Procs :
       /\ RemoveReturned(proc[p]) /\ proc[p].pc = "done"
       /\ proc[p].pre.f # None /\ proc[p].pre.r # None
       /\ proc[p].okw = {"firestore"}
       /\ proc[p].out = "ret"
       /\ firestore[proc[p].sid] = None /\ redis[proc[p].sid] # None

\* the documents of a snapshot of the durable store
DocsOf(f) == {f[id] : id \in {i \in SessionIds : f[i] # None}}

\* a rebalance that began with the primary store empty and the durable store
\* holding sessions, and ran with both backends available
SeededDurableOnly(q) ==
    /\ q.op = "rebalance" /\ q.pc = "done" /\ q.failed = {}
    /\ q.pre.idx = {} /\ \A id \in SessionIds : q.pre.r[id] = None
    /\ DocsOf(q.pre.f) # {}

\* C16: a rebalance run when only the durable store holds sessions, N of them
\* (N <= 200) with the primary store available and empty, reports source
\* 'firestore', mirroredToRedis = N and mirroredToFirestore = 0, and a listing
\* of the primary store then returns all N sessions.
C16_RebalanceFromDurable ==
    \A p \in Procs :
       LET q == proc[p]
           seeded == DocsOf(q.pre.f)
       IN SeededDurableOnly(q) =>
             /\ Cardinality(seeded) <= FALLBACK_INDEX_WINDOW
             /\ q.res.source = "firestore"
             /\ q.res.mirroredToRedis = Cardinality(seeded)
             /\ q.res.mirroredToFirestore = 0
             /\ StaleIds = {}
             /\ {Sess(s) : s \in RedisSessions} = {Sess(d) : d \in seeded}

C16_Witness ==
    \E p \in Procs :
       /\ SeededDurableOnly(proc[p])
       /\ Cardinality(DocsOf(proc[p].pre.f)) = 2
       /\ proc[p].res.mirroredToRedis = 2
       /\ Cardinality(RedisSessions) = 2

GetReturned(q) == q.op = "get" /\ q.pc = "done"

\* C17: when loadSession(id) has completed with both backends available and
\* no other operation running, the two stores hold the same record for id, or
\* neither holds one.
C17_LoadConverges ==
    \A p \in Procs :
       LET q == proc[p]
       IN (GetReturned(q) /\ q.failed = {}) =>
             /\ (redis[q.sid] = None) <=> (firestore[q.sid] = None)
             /\ redis[q.sid] # None => Decode(redis[q.sid]) # None
             /\ InRedis(q.sid) = InFirestore(q.sid)
             /\ q.res = Decode(redis[q.sid])

\* a load that found the session in the durable store only and healed the primary
C17_Witness ==
    \E p \in Procs :
       LET q == proc[p]
       IN /\ GetReturned(q) /\ q.failed = {}
          /\ q.pre.r = None /\ q.pre.f # None
          /\ redis[q.sid] # None
          /\ InRedis(q.sid) = Sess(q.pre.f)

\* the valid sessions a snapshot of the primary store holds under its index
ValidIn(r, idx) == {Decode(r[id]) : id \in {i \in idx : parseSession(r[i]) # None}}

\* the most recent documents of a snapshot of the durable store
WindowOf(f) == {d \in MostRecent(DocsOf(f), FALLBACK_INDEX_WINDOW) : HasSessionId(d)}

ListReturned(q) == q.op = "list" /\ q.pc = "done"

\* C18: listSessions returns the primary store's sessions, and mirrors each
\* into the durable store, when the primary index yields at least one valid
\* session; otherwise it returns the durable store's most recent window (at
\* most 200 sessions) and mirrors those into the primary store.  A mirror
\* write takes effect unless the backend rejects it, and a backend that
\* cannot be read yields nothing.
C18_ListSource ==
    \A p \in Procs :
       LET q == proc[p]
           primary == ValidIn(q.pre.r, q.pre.idx)
           durable == WindowOf(q.pre.f)
       IN ListReturned(q) =>
             IF "listRedis" \notin q.failed /\ primary # {}
                THEN /\ q.out = "ret"
                     /\ q.res.items = primary
                     /\ "writeFirestore" \notin q.failed =>
                           \A s \in primary : InFirestore(s.sessionId) = Sess(s)
                ELSE /\ q.out = "ret"
                     /\ q.res.items = IF "listFirestore" \in q.failed THEN {} ELSE durable
                     /\ Cardinality(q.res.items) <= FALLBACK_INDEX_WINDOW
                     /\ "writeRedis" \notin q.failed =>
                           \A s \in q.res.items : /\ InRedis(s.sessionId) = Sess(s)
                                                  /\ s.sessionId \in redisIndex

\* a listing that fell back to the durable store and mirrored two sessions
C18_Witness ==
    \E p \in Procs :
       LET q == proc[p]
       IN /\ ListReturned(q) /\ q.failed = {}
          /\ ValidIn(q.pre.r, q.pre.idx) = {}
          /\ Cardinality(q.res.items) = 2
          /\ q.res.items = WindowOf(q.pre.f)
          /\ \A s \in q.res.items : InRedis(s.sessionId) = Sess(s)

\* a payload of the primary store that parseSession rejects
MalformedRaw(raw) == raw # None /\ parseSession(raw) = None

\* a record that lacks sessionId or tokenMint
MalformedDoc(doc) == doc # None /\ ~(IsSession(doc) /\ doc.sessionId # <<>> /\ doc.tokenMint # "")

\* C19: a corrupt or malformed record (unparseable, or lacking sessionId or
\* tokenMint) that loadSession or listSessions reads from the primary or the
\* durable store is reported as not-found, and is purged from the store it
\* was read from, so that later reads of that store no longer see it.
C19_CorruptPurged ==
    \A p \in Procs :
       LET q == proc[p]
       IN /\ GetReturned(q) =>
                /\ ~MalformedDoc(q.res)
                /\ MalformedRaw(q.pre.r) => ~MalformedRaw(redis[q.sid])
                /\ (parseSession(q.pre.r) = None /\ MalformedDoc(q.pre.f)) =>
                      firestore[q.sid] = None
          /\ ListReturned(q) =>
                /\ \A s \in q.res.items : ~MalformedDoc(s)
                /\ \A id \in q.pre.idx :
                      MalformedRaw(q.pre.r[id]) => (id \notin redisIndex \/ ~MalformedRaw(redis[id]))
                /\ ValidIn(q.pre.r, q.pre.idx) = {} =>
                      \A id \in SessionIds : MalformedDoc(q.pre.f[id]) => firestore[id] = None

CleanupReturned(q) == q.op = "cleanup" /\ q.pc = "done"

\* a record that should have been swept: inactive, or expired when the sweep began
Lingers(s, t) == IsSession(s) /\ Sweepable(s, t)

\* C20: when cleanupExpiredSessions() has completed with both backends
\* available, no session with isActive = false or with now >= endTime (now
\* taken when the sweep began) remains in the primary or the durable store.
C20_SweepRemovesAll ==
    \A p \in Procs :
       LET q == proc[p]
       IN (CleanupReturned(q) /\ q.failed = {}) =>
             \A id \in SessionIds : /\ ~Lingers(Decode(redis[id]), q.checkedAt)
                                    /\ ~Lingers(firestore[id], q.checkedAt)

\* the call a process of SpecFun has made
CallOf(name) == proc["p1"].pc = "done" /\ proc["p1"].op = name

\* C24: for all last and target values, applyRateLimit returns a speed at most
\* MAX_SPEED_CHANGE from lastSpeed and an amplitude at most MAX_AMP_CHANGE from
\* lastAmplitude, except when the value was snapped to the exact target.
C24_RateLimitCap ==
    CallOf("applyRateLimit") =>
       LET in == proc["p1"].pre
           out == proc["p1"].res
       IN /\ \/ Abs(out.speed2 - 2 * in.lastSpeed) <= 2 * MAX_SPEED_CHANGE
             \/ out.speed2 = 2 * in.targetSpeed
          /\ \/ Abs(out.amplitude2 - 2 * in.lastAmplitude) <= 2 * MAX_AMP_CHANGE
             \/ out.amplitude2 = 2 * in.targetAmplitude

\* a call whose eased speed was beyond the cap and came back on it
C24_Witness ==
    /\ CallOf("applyRateLimit")
    /\ proc["p1"].pre.targetSpeed - proc["p1"].pre.lastSpeed > 2 * MAX_SPEED_CHANGE
    /\ proc["p1"].res.speed2 = 2 * (proc["p1"].pre.lastSpeed + MAX_SPEED_CHANGE)

\* C25: for every amplitude a in [0, 50], a = 0 included, amplitudeToRange(a)
\* yields a window with 0 <= minY < maxY <= 100.
C25_RangeWindow ==
    CallOf("amplitudeToRange") =>
       /\ 0 <= proc["p1"].res.minY
       /\ proc["p1"].res.minY < proc["p1"].res.maxY
       /\ proc["p1"].res.maxY <= 100

\* C26: selectModeFromMetrics returns mode 5 whenever the normalised liqDrop
\* score is >= 0.35, whatever the other scores are, and in no other case.
C26_PanicPriority ==
    CallOf("selectModeFromMetrics") =>
       (proc["p1"].res.mode = 5 <=> proc["p1"].pre.liq >= 350)

\* the liqDrop score on the threshold while every other score is at its top
C26_Witness ==
    /\ CallOf("selectModeFromMetrics")
    /\ proc["p1"].pre.liq = 350
    /\ proc["p1"].pre.trend = 1000 /\ proc["p1"].pre.chop = 1000
    /\ proc["p1"].pre.accel = 1000 /\ proc["p1"].pre.dev = 1000
    /\ proc["p1"].res.mode = 5

\* the four weighted scores of the claim, in hundred-thousandths, in its order
Weighted(metrics) ==
    <<100 * metrics.trend, 110 * metrics.chop, 120 * metrics.accel, 105 * metrics.dev>>

\* C27: with the liqDrop score below 0.35, selectModeFromMetrics returns the
\* mode with the highest weighted score; 1 if that score is < 0.05; the
\* first-listed of the modes that tie for the highest.
C27_HighestWeighted ==
    (CallOf("selectModeFromMetrics") /\ proc["p1"].pre.liq < 350) =>
       LET w == Weighted(proc["p1"].pre)
           mode == proc["p1"].res.mode
           highest == CHOOSE x \in {w[k] : k \in 1..4} : \A k \in 1..4 : w[k] <= x
       IN IF highest < 5000
             THEN mode = 1
             ELSE /\ mode \in 1..4
                  /\ w[mode] = highest
                  /\ \A k \in 1..(mode - 1) : w[k] < highest

\* a boost decides: chop 0.6 x 1.1 beats trend 0.462, accel 0.385 x 1.2 and deviation 0.44 x 1.05
C27_Witness ==
    /\ CallOf("selectModeFromMetrics")
    /\ proc["p1"].pre.liq = 349
    /\ proc["p1"].pre.trend = 462 /\ proc["p1"].pre.chop = 600
    /\ proc["p1"].pre.accel = 385 /\ proc["p1"].pre.dev = 440
    /\ proc["p1"].res.mode = 2

\* all four weighted scores tie above the default threshold
C27_TieWitness ==
    /\ CallOf("selectModeFromMetrics")
    /\ proc["p1"].pre.liq < 350
    /\ Weighted(proc["p1"].pre) = <<46200, 46200, 46200, 46200>>
    /\ proc["p1"].res.mode = 1

\* C28: in Liquidity Panic mode a liqDrop score >= 0.9 forces speed 0,
\* amplitude 0 and the style liquidity-panic-stop whatever trend and chop
\* are; a score in [0.35, 0.9) gives the fast and tight mapping, never speed 0.
C28_PanicStop ==
    CallOf("modeLiquidityPanic") =>
       LET liq == proc["p1"].pre.liq
           out == proc["p1"].res
       IN /\ liq >= 900 =>
                out.speed = 0 /\ out.amplitude = 0 /\ out.style = "liquidity-panic-stop"
          /\ (liq >= 350 /\ liq < 900) =>
                /\ out.style = "liquidity-panic-active"
                /\ out.speed = RoundDiv(60000 + 40 * liq, 1000)
                /\ out.amplitude = RoundDiv(6000 + 16 * (1000 - liq), 1000)
                /\ out.speed # 0

\* the stop on the threshold, with trend and chop at their top
C28_Witness ==
    /\ CallOf("modeLiquidityPanic")
    /\ proc["p1"].pre.liq = 900
    /\ proc["p1"].pre.trend = 1000 /\ proc["p1"].pre.chop = 1000
    /\ proc["p1"].res.speed = 0

\* the minute bucket of the start time a config gets at time t
BucketOf(config, t) == StartTimeOf(config, t) \div 60000

\* C30: two createSession calls with the same sessionStateId and tokenMint,
\* start times in the same minute bucket and the same initial mode derive
\* the same seed and the same modeParams.
C30_SeedReproducible ==
    CallOf("createSession") =>
       LET c1 == proc["p1"].pre.first
           c2 == proc["p1"].pre.second
       IN (/\ c1.sessionStateId = c2.sessionStateId
           /\ c1.tokenMint = c2.tokenMint
           /\ BucketOf(c1, now) = BucketOf(c2, now)
           /\ InitialModeOf(c1) = InitialModeOf(c2))
          => /\ proc["p1"].res.first.seed = proc["p1"].res.second.seed
             /\ proc["p1"].res.first.modeParams = proc["p1"].res.second.modeParams

\* two start times one minute bucket holds, the mode given once and defaulted once
C30_Witness ==
    /\ CallOf("createSession")
    /\ proc["p1"].pre.first.sessionStateId = "state"
    /\ proc["p1"].pre.second.sessionStateId = "state"
    /\ proc["p1"].pre.first.tokenMint = proc["p1"].pre.second.tokenMint
    /\ proc["p1"].pre.first.startTime = 1 /\ proc["p1"].pre.second.startTime = 59999
    /\ proc["p1"].pre.first.initialModeId = 0 /\ proc["p1"].pre.second.initialModeId = 1
    /\ proc["p1"].res.first = proc["p1"].res.second

\* a tick that ran its try block after fetchCandles returned no candle
TickUnfetched(q) == TickDone(q) /\ q.path \in {"pipeline", "fallback"} /\ ~q.fetched

\* C29: when the market snapshot provider returns no candle, the tick computes
\* with the neutral default metrics, the session stays active with its
\* candleBuffer unchanged, and the tick returns a command, no error.
C29_FetchErrorNeutral ==
    \A p \in Procs :
       LET q == proc[p]
       IN TickUnfetched(q) =>
             /\ q.metrics = NeutralMetrics
             /\ q.session.isActive
             /\ q.session.candleBuffer = q.first.candleBuffer
             /\ q.out = "ret"
             /\ q.res # None /\ q.res # Null

\* what creation fixes
FrozenFields == {"modeParams", "seed", "sessionId", "tokenMint", "startTime", "endTime"}

\* what a tick may change
TickFields == {"modeId", "boosterStep", "candleBuffer", "lastSpeed", "lastAmplitude"}

SameOn(fields, s, t) == \A f \in fields : s[f] = t[f]

\* the session a backend holds for id, or None
Held(store, id) ==
    IF store[id] = None THEN None
    ELSE IF "json" \in DOMAIN store[id] THEN store[id].json ELSE store[id]

\* a step of an operation other than a creation rewrites no frozen field of a
\* record a backend holds
StoresKeepFrozen ==
    \A p \in Procs, id \in SessionIds :
       (proc[p].op \notin {"none", "create"} /\ proc'[p] # proc[p]) =>
          /\ (Held(redis, id) # None /\ Held(redis', id) # None) =>
                SameOn(FrozenFields, Held(redis, id), Held(redis', id))
          /\ (Held(firestore, id) # None /\ Held(firestore', id) # None) =>
                SameOn(FrozenFields, Held(firestore, id), Held(firestore', id))

\* the session a finished tick worked on differs from the one it loaded in TickFields only
TickFrame ==
    \A p \in Procs :
       LET q == proc[p]
       IN (TickDone(q) /\ q.path \in {"pipeline", "fallback"}) =>
             /\ DOMAIN q.session = DOMAIN q.first
             /\ SameOn(DOMAIN q.first \ TickFields, q.session, q.first)

\* endSession changes nothing but isActive in the session it loaded
EndFrame ==
    \A p \in Procs :
       (proc[p].pc = "endLoaded" /\ proc[p].session # None /\ proc'[p].pc = "save") =>
          /\ DOMAIN proc'[p].session = DOMAIN proc[p].session
          /\ SameOn(DOMAIN proc[p].session \ {"isActive"}, proc'[p].session, proc[p].session)

\* C22: modeParams is immutable after creation: no tick, end or store operation
\* changes a session's modeParams, seed, sessionId, tokenMint, startTime or
\* endTime, and a tick changes only modeId, boosterStep, candleBuffer,
\* lastSpeed and lastAmplitude.
C22_FrozenAfterCreation == [][StoresKeepFrozen /\ EndFrame]_vars /\ []TickFrame

\* a tick that changed the session it loaded and whose result both backends hold
C22_Witness ==
    \E p \in Procs :
       LET q == proc[p]
       IN /\ TickDone(q) /\ q.path = "pipeline"
          /\ q.session.candleBuffer # q.first.candleBuffer
          /\ q.session.lastSpeed # q.first.lastSpeed
          /\ Held(redis, q.sid) = q.session
          /\ Sess(Held(firestore, q.sid)) = Sess(q.session)

\* a tick that ran its try block
TickRan(q) == TickDone(q) /\ q.path \in {"pipeline", "fallback"}

\* every session a backend or an invocation holds
SessionsHeld ==
    {Held(redis, id) : id \in SessionIds} \cup {Held(firestore, id) : id \in SessionIds}
       \cup {proc[p].session : p \in Procs}

\* new is old with candle appended, cut to its last BUFFER_SIZE entries
AppendedEvicting(old, candle, new) ==
    LET dropped == Len(old) + 1 - Len(new)
    IN /\ Len(new) = Min(Len(old) + 1, BUFFER_SIZE)
       /\ new[Len(new)] = candle
       /\ \A i \in 1..(Len(new) - 1) : new[i] = old[i + dropped]

\* C21: in every reachable session state the candleBuffer holds at most 10
\* candles; a tick that fetched a candle appends it at the end, and past the
\* bound the oldest candles are evicted and the order of the rest is kept.
C21_BufferBounded ==
    /\ \A session \in SessionsHeld :
          IsSession(session) => Len(session.candleBuffer) <= BUFFER_SIZE
    /\ \A p \in Procs :
          LET q == proc[p]
          IN TickRan(q) =>
                IF q.fetched
                   THEN AppendedEvicting(q.first.candleBuffer, now, q.session.candleBuffer)
                   ELSE q.session.candleBuffer = q.first.candleBuffer

\* a tick that loaded a full buffer of distinct candles and evicted the oldest
C21_Witness ==
    \E p \in Procs :
       LET q == proc[p]
       IN /\ TickRan(q) /\ q.fetched
          /\ Len(q.first.candleBuffer) = BUFFER_SIZE
          /\ q.first.candleBuffer[1] < q.first.candleBuffer[2]
          /\ q.session.candleBuffer[1] = q.first.candleBuffer[2]
          /\ q.session.candleBuffer[BUFFER_SIZE] = now
          /\ Held(redis, q.sid) = q.session

\* the floors of the claim, by the step the booster is on
FloorSpeed == <<28, 45, 35>>
FloorAmp == <<18, 28, 12>>

\* what applyBooster returned to a tick, against the mode result it was given
BoosterStepped(q) ==
    LET modeResult == computeMode(q.session.modeId, q.metrics, q.first.modeParams)
        step == q.first.boosterStep
    IN /\ q.session.boosterStep = q.boost.newStep
       /\ IF modeResult.intensity6 < 100000
             THEN /\ q.boost.wasApplied
                  /\ q.boost.newStep = (step + 1) % 3
                  /\ q.boost.speed = Max(modeResult.speed, FloorSpeed[step + 1])
                  /\ q.boost.amplitude = Max(modeResult.amplitude, FloorAmp[step + 1])
             ELSE /\ ~q.boost.wasApplied
                  /\ q.boost.newStep = 0
                  /\ q.boost.speed = modeResult.speed
                  /\ q.boost.amplitude = modeResult.amplitude

\* C23: from step 0, the booster step over consecutive ticks with intensity
\* < 0.10 follows 0,1,2,0,1,2,...: a session starts on step 0, a tick starts on
\* the step the last tick left, and a tick with intensity < 0.10 gives
\* newStep = (step + 1) mod 3, wasApplied and the floors 28/18, 45/28, 35/12 of
\* its step, while a tick with intensity >= 0.10 leaves speed and amplitude
\* unchanged with newStep = 0 and wasApplied false.
C23_BoosterCycle ==
    \A p \in Procs :
       LET q == proc[p]
       IN /\ (CreateReturned(q) /\ q.out = "ret") => q.res.boosterStep = 0
          /\ (q.op = "tick" /\ q.pc = "tickFetch") =>
                q.first.boosterStep = lastSaved[q.sid].boosterStep
          /\ TickRan(q) => BoosterStepped(q)

\* the third low-intensity tick in a row: from step 2 back to step 0, on the floor of step 2
C23_Witness ==
    \E p \in Procs :
       LET q == proc[p]
       IN /\ TickRan(q)
          /\ q.boost.wasApplied
          /\ q.first.boosterStep = 2
          /\ q.session.boosterStep = 0
          /\ q.boost.speed = 35
          /\ lastSaved[q.sid].boosterStep = 0

\* C40: range drift keeps the window bounded and separated: for every window of
\* amplitudeToRange (integer amplitude in [0, 50]) and every integer drift in
\* [-12, 12], 0 included, applyRangeDrift returns a command with the speed
\* unchanged, 0 <= minY <= 95, maxY <= 100 and maxY - minY >= 5.
C40_DriftWindow ==
    CallOf("applyRangeDrift") =>
       /\ proc["p1"].res.speed = proc["p1"].pre.command.speed
       /\ 0 <= proc["p1"].res.minY
       /\ proc["p1"].res.minY <= 95
       /\ proc["p1"].res.maxY <= 100
       /\ proc["p1"].res.maxY - proc["p1"].res.minY >= 5

\* The same bounds for the drifts other than 0, which applyRangeDrift shifts.
C40_ShiftedWindow ==
    (CallOf("applyRangeDrift") /\ proc["p1"].pre.drift # 0) =>
       /\ proc["p1"].res.speed = proc["p1"].pre.command.speed
       /\ 0 <= proc["p1"].res.minY
       /\ proc["p1"].res.minY <= 95
       /\ proc["p1"].res.maxY <= 100
       /\ proc["p1"].res.maxY - proc["p1"].res.minY >= 5

\* C31: the per-tick computation has no hidden or shared state.  Whenever two
\* callers have completed the same computation on identical inputs (metrics and
\* modeParams for the mode selection; seed, elapsed tick index, modeId, metrics,
\* input speed and input amplitude for the variation), their results are
\* identical, whatever each caller called before and whatever the other caller
\* did in between.
C31_NoHiddenState ==
    \A p \in Procs, q \in Procs :
       (/\ proc[p].pc = "done" /\ proc[q].pc = "done"
        /\ proc[p].op = proc[q].op
        /\ proc[p].pre = proc[q].pre) => proc[p].res = proc[q].res

\* Two callers hold the result of the same variation call, one of them after an
\* earlier call with other inputs, the other on its first call.
C31_Witness ==
    /\ proc["p1"].pc = "done" /\ proc["p2"].pc = "done"
    /\ proc["p1"].op = "applyExpressiveVariation"
    /\ proc["p2"].op = "applyExpressiveVariation"
    /\ proc["p1"].pre = proc["p2"].pre
    /\ proc["p1"].cnt = 2 /\ proc["p2"].cnt = 1
    /\ proc["p1"].res = proc["p2"].res

\* the last values equal the constant target
OnTarget ==
    /\ proc["p1"].pc = "smooth"
    /\ proc["p1"].res.speed = proc["p1"].pre.targetSpeed
    /\ proc["p1"].res.amplitude = proc["p1"].pre.targetAmplitude

\* C39: the smoothing terminates: with a constant target (integer speed in
\* [0, 100], amplitude in [0, 50]) and each tick's output fed back as the next
\* tick's last value, lastSpeed and lastAmplitude become exactly equal to the
\* target after finitely many ticks and stay equal from then on.
C39_SmoothingTerminates == [](proc["p1"].pc = "smooth" => <>[]OnTarget)

\* The target was reached after at least three ticks that adjusted a value.
C39_Witness == OnTarget /\ proc["p1"].cnt >= 3

\* a backend holds the session of the latest successful save of `id`
Keeps(store, id) == Held(store, id) # None /\ Sess(Held(store, id)) = lastSaved[id]

\* no saveSession of `id` is between its first write and its return
Settled(id) == \A p \in Procs : ~(proc[p].pc = "save" /\ proc[p].sid = id)

\* C32: no successfully saved update is lost by healing: after saveSession(s)
\* returned successfully, at least one store keeps holding s until the next
\* save or remove of that id, also when the save reached only the durable
\* store and a later loadSession finds an older record in the primary.
C32_SavedNotLost ==
    \A id \in SessionIds :
       (lastSaved[id] \notin {None, Removed} /\ Settled(id))
          => (Keeps(redis, id) \/ Keeps(firestore, id))

\* two overlapping ticks of one session that both ran the pipeline and saved,
\* with no backend call of either failing
OverlappedSaves(p, o) ==
    /\ OverlappedTicks(p, o)
    /\ proc[p].path = "pipeline" /\ proc[o].path = "pipeline"
    /\ proc[p].failed = {} /\ proc[o].failed = {}

\* C35: when two processSessionTick invocations for the same session overlap
\* while both backends are available, after both have completed the primary
\* and the durable store hold the same session record.
C35_OverlapStoresAgree ==
    \A p, o \in Procs :
       OverlappedSaves(p, o) =>
          /\ InRedis(proc[p].sid) # None
          /\ InFirestore(proc[p].sid) # None
          /\ Sess(InRedis(proc[p].sid)) = Sess(InFirestore(proc[p].sid))

\* the session ids a backend holds a record of
IdsIn(store) == {id \in SessionIds : store[id] # None}

\* C36: after rebalanceChartSyncStores() completes with both backends available
\* and no concurrent writes, the two stores contain the same set of session
\* ids, also when both were non-empty and held different sets before the call.
C36_RebalanceEqualizes ==
    \A p \in Procs :
       LET q == proc[p]
       IN (q.op = "rebalance" /\ q.pc = "done" /\ q.failed = {})
             => IdsIn(redis) = IdsIn(firestore)

\* The same for the calls that began with at most one of the stores non-empty.
C36_OneSidedRebalance ==
    \A p \in Procs :
       LET q == proc[p]
       IN (/\ q.op = "rebalance" /\ q.pc = "done" /\ q.failed = {}
           /\ (\A id \in SessionIds : q.pre.r[id] = None)
                 \/ (\A id \in SessionIds : q.pre.f[id] = None))
             => IdsIn(redis) = IdsIn(firestore)

Keptin(store, session) ==
    /\ Held(store, session.sessionId) # None
    /\ Sess(Held(store, session.sessionId)) = Sess(session)

\* a backend still holds the listed session as it was listed
Remains(session) ==
    \/ Keptin(redis, session)
    \/ Keptin(firestore, session)

\* C38: cleanupExpiredSessions never removes a session that is active and
\* unexpired: every session it removes had isActive = false or now >= endTime
\* in the listing it acted on, and the listed sessions with isActive = true and
\* now < endTime remain in storage after the sweep.
C38_SweepSparesActive ==
    \A p \in Procs :
       LET q == proc[p]
       IN /\ (q.op = "cleanup" /\ q.pc \in {"remove", "swept"}) =>
                \E session \in Listed(q).items :
                   /\ session.sessionId = q.sid
                   /\ ~session.isActive \/ now >= session.endTime
          /\ CleanupReturned(q) =>
                \A session \in Listed(q).items :
                   (session.isActive /\ now < session.endTime) => Remains(session)

\* A sweep has returned after removing a session, and a listed session that is
\* active and unexpired is still stored.
C38_Witness ==
    \E p \in Procs :
       /\ CleanupReturned(proc[p])
       /\ proc[p].res.cleaned >= 1
       /\ \E session \in Listed(proc[p]).items :
             session.isActive /\ now < session.endTime /\ Remains(session)

\* the ids of the stored sessions of a token that are active and unexpired
ActiveIds(tokenMint) ==
    {id \in SessionIds :
        \E store \in {redis, firestore} :
           /\ Held(store, id) # None
           /\ ActiveForToken({Held(store, id)}, tokenMint, now) # {}}

\* C34: at most one active, unexpired session exists per tokenMint at any time:
\* the check-then-create sequence of the start paths never leaves two sessions
\* with isActive = true and now < endTime for the same token, under any
\* interleaving of concurrent start requests.
C34_OneActivePerToken == \A tokenMint \in Tokens : Cardinality(ActiveIds(tokenMint)) <= 1

\* C33: a removed session does not come back: after removeSession(id) returned
\* successfully, every later loadSession(id) and listSessions() reports the
\* session as absent unless createSession re-creates it, also when one backend
\* was unavailable during the remove.
C33_RemovedStaysGone ==
    \A p \in Procs :
       LET q == proc[p]
       IN /\ (GetReturned(q) /\ lastSaved[q.sid] = Removed) => q.res = None
          /\ ListReturned(q) =>
                \A session \in q.res.items : lastSaved[session.sessionId] # Removed

\* the booster step of a session indexes a pattern of BOOSTER_PATTERNS
StepInRange(session) == session = None \/ session.boosterStep \in 0..(Len(BOOSTER_PATTERNS) - 1)

\* C37: in every reachable stored session state boosterStep is one of 0, 1, 2,
\* so applyBooster always finds a pattern for the current step; this holds
\* after any sequence of create, tick (overlapping ticks included) and heal
\* operations.
C37_BoosterStepInRange ==
    \A id \in SessionIds : StepInRange(Held(redis, id)) /\ StepInRange(Held(firestore, id))

\* Two overlapping ticks have finished and both stores hold the session on a
\* booster step other than 0.
C37_Witness ==
    \E p, o \in Procs :
       /\ OverlappedTicks(p, o)
       /\ Held(redis, proc[p].sid) # None /\ Held(redis, proc[p].sid).boosterStep > 0
       /\ Held(firestore, proc[p].sid) # None /\ Held(firestore, proc[p].sid).boosterStep > 0

====
